---- MODULE Spec2Model ----
(***************************************************************************)
(* Model of the cookies-sync extension's API request monitor               *)
(* (src/src/utils/api-monitor.js), its path matcher                        *)
(* (src/src/utils/config.js) and the service worker's trigger callback     *)
(* (src/unnamed/part_001).                                                 *)
(*                                                                         *)
(* JavaScript strings are sequences of one-character strings; JavaScript   *)
(* objects used as mappings are functions whose DOMAIN is the key set; an  *)
(* optional value (x or null) is the sequence <<>> or <<x>>.               *)
(* headerChangePercentage is kept in hundredths of a percent, the          *)
(* resolution Math.round(p * 100) / 100 leaves: 100% is 10000.             *)
(***************************************************************************)
EXTENDS Integers, Sequences, FiniteSets, TLC

----------------------------------------------------------------------------
(* Strings *)

EndsWith(s, suffix) ==
    /\ Len(suffix) <= Len(s)
    /\ SubSeq(s, Len(s) - Len(suffix) + 1, Len(s)) = suffix

\* s.replace(/^\./, '')
StripLeadingDot(s) == IF Len(s) > 0 /\ s[1] = "." THEN Tail(s) ELSE s

IsSpace(c) == c = " "

RECURSIVE TrimStart(_)
TrimStart(s) == IF s # <<>> /\ IsSpace(Head(s)) THEN TrimStart(Tail(s)) ELSE s

RECURSIVE TrimEnd(_)
TrimEnd(s) ==
    IF s # <<>> /\ IsSpace(s[Len(s)]) THEN TrimEnd(SubSeq(s, 1, Len(s) - 1)) ELSE s

\* String.prototype.trim
Trim(s) == TrimEnd(TrimStart(s))

\* String.prototype.split(sep) for a one-character separator: the pieces
\* between the separators, empty pieces included.
RECURSIVE SplitAcc(_, _, _)
SplitAcc(s, sep, cur) ==
    IF s = <<>> THEN <<cur>>
    ELSE IF Head(s) = sep THEN <<cur>> \o SplitAcc(Tail(s), sep, <<>>)
    ELSE SplitAcc(Tail(s), sep, Append(cur, Head(s)))

Split(s, sep) == SplitAcc(s, sep, <<>>)

\* Array.prototype.join(sep)
RECURSIVE Join(_, _)
Join(parts, sep) ==
    IF parts = <<>> THEN <<>>
    ELSE IF Len(parts) = 1 THEN parts[1]
    ELSE parts[1] \o <<sep>> \o Join(Tail(parts), sep)

\* String.prototype.toLowerCase, over the letters the requests use
LowerChar(c) ==
    CASE c = "A" -> "a"
      [] c = "B" -> "b"
      [] c = "C" -> "c"
      [] c = "E" -> "e"
      [] c = "I" -> "i"
      [] c = "K" -> "k"
      [] c = "O" -> "o"
      [] OTHER -> c

toLowerCase(s) == [i \in 1..Len(s) |-> LowerChar(s[i])]

----------------------------------------------------------------------------
(* Mappings (JavaScript objects) *)

EmptyMap == <<>>

Keys(m) == DOMAIN m

\* m with m[k] = v assigned
Put(m, k, v) == [x \in DOMAIN m \cup {k} |-> IF x = k THEN v ELSE m[x]]

\* m with key k deleted
Without(m, k) == [x \in DOMAIN m \ {k} |-> m[x]]

\* { ...a, ...b }
Spread(a, b) == [k \in DOMAIN a \cup DOMAIN b |-> IF k \in DOMAIN b THEN b[k] ELSE a[k]]

----------------------------------------------------------------------------
(* Domain and path matching *)

\* A matchesDomain that compares suffixes without the dot before them
matchesDomain_SuffixOnly(requestDomain, configDomain) ==
    IF requestDomain = <<>> \/ configDomain = <<>> THEN FALSE
    ELSE \/ EndsWith(requestDomain, StripLeadingDot(configDomain))
         \/ EndsWith(StripLeadingDot(configDomain), StripLeadingDot(requestDomain))

matchesDomain(requestDomain, configDomain) ==
    IF requestDomain = <<>> \/ configDomain = <<>> THEN FALSE
    ELSE IF requestDomain = configDomain THEN TRUE
    ELSE LET cleanConfigDomain == StripLeadingDot(configDomain) IN
         IF EndsWith(requestDomain, <<".">> \o cleanConfigDomain) THEN TRUE
         ELSE LET cleanRequestDomain == StripLeadingDot(requestDomain) IN
              EndsWith(cleanConfigDomain, <<".">> \o cleanRequestDomain)

\* The characters pathToRegex escapes: . + ? ^ $ { } ( ) | [ ] \
RegexSpecialChars ==
    {".", "+", "?", "^", "$", "{", "}", "(", ")", "|", "[", "]", "\\"}

\* path.replace(/[.+?^${}()|[\]\\]/g, '\\$&')
RECURSIVE EscapeSpecialChars(_)
EscapeSpecialChars(path) ==
    IF path = <<>> THEN <<>>
    ELSE (IF Head(path) \in RegexSpecialChars THEN <<"\\", Head(path)>>
          ELSE <<Head(path)>>) \o EscapeSpecialChars(Tail(path))

\* .replace(/\*/g, '.*')
RECURSIVE StarToDotStar(_)
StarToDotStar(path) ==
    IF path = <<>> THEN <<>>
    ELSE (IF Head(path) = "*" THEN <<".", "*">> ELSE <<Head(path)>>)
         \o StarToDotStar(Tail(path))

\* new RegExp(source), for the sources pathToRegex builds: a sequence of
\* atoms, where '\c' is the character c, '.' is any character but a line
\* terminator, every other character is itself, and a '*' after an atom
\* repeats it zero or more times
RECURSIVE RegExp(_)
RegExp(source) ==
    IF source = <<>> THEN <<>>
    ELSE LET escaped == Head(source) = "\\" /\ Len(source) >= 2
             width == IF escaped THEN 2 ELSE 1
             starred == Len(source) > width /\ source[width + 1] = "*"
             rest == SubSeq(source, width + (IF starred THEN 2 ELSE 1), Len(source))
         IN << [any |-> ~escaped /\ Head(source) = ".",
                ch |-> IF escaped THEN source[2] ELSE Head(source),
                star |-> starred] >> \o RegExp(rest)

\* A pathToRegex that escapes nothing
pathToRegex_NoEscape(path) == RegExp(StarToDotStar(path))

\* The pattern between ^ and $
pathToRegex(path) == RegExp(StarToDotStar(EscapeSpecialChars(path)))

LineTerminators == {"\n", "\r"}

\* Whether the atom matches the character c
AtomMatches(atom, c) ==
    IF atom.any THEN c \notin LineTerminators ELSE atom.ch = c

\* regex.test(s) for the anchored pattern ^...$
RECURSIVE RegexTest(_, _)
RegexTest(regex, s) ==
    IF regex = <<>> THEN s = <<>>
    ELSE IF Head(regex).star
         THEN \/ RegexTest(Tail(regex), s)
              \/ /\ s # <<>>
                 /\ AtomMatches(Head(regex), Head(s))
                 /\ RegexTest(regex, Tail(s))
    ELSE /\ s # <<>>
         /\ AtomMatches(Head(regex), Head(s))
         /\ RegexTest(Tail(regex), Tail(s))

\* A matchesApiPath that takes every path once patterns are configured
matchesApiPath_AnyPath(urlPath, apiPaths) == Len(apiPaths) > 0

matchesApiPath(urlPath, apiPaths) ==
    IF Len(apiPaths) = 0 THEN FALSE
    ELSE \E i \in 1..Len(apiPaths) : RegexTest(pathToRegex(apiPaths[i]), urlPath)

----------------------------------------------------------------------------
(* Request data extraction *)

COOKIE == <<"c", "o", "o", "k", "i", "e">>

\* One fragment of cookieHeader.split(';'), applied to the cookies so far
ParseCookieFragment(cookies, fragment) ==
    LET parts == Split(Trim(fragment), "=") IN
    IF Len(parts) >= 2
    THEN LET name == Trim(parts[1])
             value == Trim(Join(Tail(parts), "="))
         IN IF name # <<>> THEN Put(cookies, name, value) ELSE cookies
    ELSE cookies

RECURSIVE ParseCookieFragments(_, _)
ParseCookieFragments(cookies, fragments) ==
    IF fragments = <<>> THEN cookies
    ELSE ParseCookieFragments(ParseCookieFragment(cookies, Head(fragments)),
                              Tail(fragments))

parseCookieHeader(cookieHeader) ==
    IF cookieHeader = <<>> THEN EmptyMap
    ELSE ParseCookieFragments(EmptyMap, Split(cookieHeader, ";"))

\* requestHeaders is a sequence of [name, value, hasValue] (hasValue is FALSE
\* for a header that carries a binaryValue, whose value is undefined); a later
\* entry of the same lower-cased name overwrites an earlier one.
RECURSIVE ExtractHeadersFrom(_, _)
ExtractHeadersFrom(headers, requestHeaders) ==
    IF requestHeaders = <<>> THEN headers
    ELSE LET header == Head(requestHeaders) IN
         ExtractHeadersFrom(
            IF header.name # <<>> /\ header.hasValue
            THEN Put(headers, toLowerCase(header.name), header.value)
            ELSE headers,
            Tail(requestHeaders))

extractHeaders(requestHeaders) == ExtractHeadersFrom(EmptyMap, requestHeaders)

\* The synchronous part of extractRequestData: the cookies of the Cookie
\* header and the headers without it.
CookiesOfHeader(requestHeaders) ==
    LET headers == extractHeaders(requestHeaders)
        cookieHeader == IF COOKIE \in DOMAIN headers THEN headers[COOKIE] ELSE <<>>
    IN parseCookieHeader(cookieHeader)

\* Headers from which the cookie header is not removed
OtherHeaders_KeepsCookie(requestHeaders) == extractHeaders(requestHeaders)

OtherHeaders(requestHeaders) == Without(extractHeaders(requestHeaders), COOKIE)

\* extractRequestData, given what the cookie lookup returns when it is asked
extractRequestData(requestHeaders, lookup) ==
    LET cookies == CookiesOfHeader(requestHeaders) IN
    [cookies |-> IF Cardinality(Keys(cookies)) = 0 THEN lookup ELSE cookies,
     headers |-> OtherHeaders(requestHeaders)]

----------------------------------------------------------------------------
(* Change detection and merge *)

\* A hasChanges that compares the key sets and not the values
hasChanges_KeysOnly(obj1, obj2) ==
    \/ Cardinality(Keys(obj1)) # Cardinality(Keys(obj2))
    \/ \E key \in Keys(obj1) : key \notin Keys(obj2)
    \/ \E key \in Keys(obj2) : key \notin Keys(obj1)

\* hasChanges(obj1, obj2) for two mappings that are both present
hasChanges(obj1, obj2) ==
    \/ Cardinality(Keys(obj1)) # Cardinality(Keys(obj2))
    \/ \E key \in Keys(obj1) : key \notin Keys(obj2) \/ obj1[key] # obj2[key]
    \/ \E key \in Keys(obj2) : key \notin Keys(obj1)

\* Math.round(x) of the non-negative rational num / den
RoundDiv(num, den) == (2 * num + den) \div (2 * den)

\* 100%, in hundredths of a percent
FULL_PERCENTAGE == 10000

\* A percentage over the names of both objects, in which a name that only
\* one of them has counts as changed
calculateHeaderChangePercentage_OverAllKeys(newHeaders, oldHeaders) ==
    IF Cardinality(Keys(oldHeaders)) = 0
    THEN [changedCount |-> Cardinality(Keys(newHeaders)),
          totalCommonKeys |-> Cardinality(Keys(newHeaders)),
          percentage |-> FULL_PERCENTAGE]
    ELSE LET allKeys == Keys(newHeaders) \cup Keys(oldHeaders)
             changedCount ==
                 Cardinality({key \in allKeys :
                                \/ key \notin Keys(newHeaders)
                                \/ key \notin Keys(oldHeaders)
                                \/ newHeaders[key] # oldHeaders[key]})
         IN [changedCount |-> changedCount,
             totalCommonKeys |-> Cardinality(allKeys),
             percentage |-> RoundDiv(changedCount * FULL_PERCENTAGE, Cardinality(allKeys))]

\* calculateHeaderChangePercentage(newHeaders, oldHeaders)
calculateHeaderChangePercentage(newHeaders, oldHeaders) ==
    IF Cardinality(Keys(oldHeaders)) = 0
    THEN [changedCount |-> Cardinality(Keys(newHeaders)),
          totalCommonKeys |-> Cardinality(Keys(newHeaders)),
          percentage |-> FULL_PERCENTAGE]
    ELSE LET allKeys == Keys(newHeaders) \cup Keys(oldHeaders)
             commonKeys == {key \in allKeys : key \in Keys(newHeaders) /\ key \in Keys(oldHeaders)}
         IN IF Cardinality(commonKeys) = 0
            THEN [changedCount |-> Cardinality(allKeys),
                  totalCommonKeys |-> 0,
                  percentage |-> FULL_PERCENTAGE]
            ELSE LET changedCount ==
                        Cardinality({key \in commonKeys : newHeaders[key] # oldHeaders[key]})
                 IN [changedCount |-> changedCount,
                     totalCommonKeys |-> Cardinality(commonKeys),
                     \* Math.round((changedCount / n * 100) * 100) / 100
                     percentage |-> RoundDiv(changedCount * FULL_PERCENTAGE,
                                             Cardinality(commonKeys))]

\* 20%, in hundredths of a percent
MIN_HEADER_CHANGE_PERCENTAGE == 2000

\* A threshold test that leaves the threshold itself out
MeetsThreshold_Above(percentage) == percentage > MIN_HEADER_CHANGE_PERCENTAGE

\* headerStats.percentage >= MIN_HEADER_CHANGE_PERCENTAGE
MeetsThreshold(percentage) == percentage >= MIN_HEADER_CHANGE_PERCENTAGE

\* The verdict of the first request of a domain
FirstRequestVerdict ==
    [shouldSync |-> TRUE, cookiesChanged |-> TRUE, headersChanged |-> TRUE,
     headerChangePercentage |-> FULL_PERCENTAGE]

\* A comparison that judges the headers before the cookies
CompareWithStored_HeadersFirst(newData, stored) ==
    LET cookiesChanged == hasChanges(newData.cookies, stored.cookies)
        headersChanged == hasChanges(newData.headers, stored.headers)
    IN IF headersChanged
       THEN LET headerStats == calculateHeaderChangePercentage(
                                   newData.headers, stored.headers)
            IN [shouldSync |-> MeetsThreshold(headerStats.percentage),
                cookiesChanged |-> cookiesChanged, headersChanged |-> TRUE,
                headerChangePercentage |-> headerStats.percentage]
       ELSE [shouldSync |-> cookiesChanged, cookiesChanged |-> cookiesChanged,
             headersChanged |-> FALSE, headerChangePercentage |-> 0]

\* compareAndDetectChanges when stored data exists
CompareWithStored(newData, stored) ==
    LET cookiesChanged == hasChanges(newData.cookies, stored.cookies)
        headersChanged == hasChanges(newData.headers, stored.headers)
    IN IF cookiesChanged
       THEN [shouldSync |-> TRUE, cookiesChanged |-> TRUE,
             headersChanged |-> headersChanged,
             headerChangePercentage |-> IF headersChanged THEN FULL_PERCENTAGE ELSE 0]
       ELSE IF headersChanged
       THEN LET headerStats == calculateHeaderChangePercentage(
                                   newData.headers, stored.headers)
            IN [shouldSync |-> MeetsThreshold(headerStats.percentage),
                cookiesChanged |-> FALSE, headersChanged |-> TRUE,
                headerChangePercentage |-> headerStats.percentage]
       ELSE [shouldSync |-> FALSE, cookiesChanged |-> FALSE,
             headersChanged |-> FALSE, headerChangePercentage |-> 0]

\* A detector that takes a missing snapshot for an empty one
compareAndDetectChanges_NullAsEmpty(newData, storedData) ==
    CompareWithStored(newData,
        IF storedData = <<>> THEN [cookies |-> EmptyMap, headers |-> EmptyMap]
        ELSE storedData[1])

\* storedData is <<>> (null) or <<[cookies, headers, timestamp]>>
compareAndDetectChanges(newData, storedData) ==
    IF storedData = <<>> THEN FirstRequestVerdict
    ELSE CompareWithStored(newData, storedData[1])

\* A merge in which the stored value of a name wins
mergeRequestData_OldWins(currentData, newData) ==
    IF currentData = <<>>
    THEN [cookies |-> Spread(EmptyMap, newData.cookies),
          headers |-> Spread(EmptyMap, newData.headers)]
    ELSE [cookies |-> Spread(newData.cookies, currentData[1].cookies),
          headers |-> Spread(newData.headers, currentData[1].headers)]

\* A merge that replaces the stored data by the request's
mergeRequestData_Replace(currentData, newData) ==
    [cookies |-> Spread(EmptyMap, newData.cookies),
     headers |-> Spread(EmptyMap, newData.headers)]

\* currentData is <<>> (null) or <<[cookies, headers, timestamp]>>
mergeRequestData(currentData, newData) ==
    IF currentData = <<>>
    THEN [cookies |-> Spread(EmptyMap, newData.cookies),
          headers |-> Spread(EmptyMap, newData.headers)]
    ELSE [cookies |-> Spread(currentData[1].cookies, newData.cookies),
          headers |-> Spread(currentData[1].headers, newData.headers)]

----------------------------------------------------------------------------
(* Bounds and inputs *)

\* Requests dispatched in one behaviour
MaxRequests == 3

\* Clock ticks in one behaviour
MaxTicks == 3

\* Writes of the configuration in one behaviour
MaxConfigChanges == 2

\* chrome.cookies.onChanged events in one behaviour
MaxCookieChanges == 2

SYNC_DEBOUNCE_MS == 2000

\* The clock advances in half debounce windows
TickMs == SYNC_DEBOUNCE_MS \div 2

MaxTime == MaxTicks * TickMs

HandlerIds == {1, 2}

D_PATHS == <<"a", ".", "c">>
D_WHOLE == <<"b", ".", "c">>
D_OTHER == <<"d", ".", "c">>

\* config.targetDomains after getConfig's normalisation: a.c with the
\* pattern /v/*, b.c without patterns (whole-domain mode), and d.c, a second
\* monitored domain
TargetDomains ==
    << [domain |-> D_PATHS, apiPaths |-> << <<"/", "v", "/", "*">> >>],
       [domain |-> D_WHOLE, apiPaths |-> << >>],
       [domain |-> D_OTHER, apiPaths |-> << <<"/", "v", "/", "*">> >>] >>

Hosts == {D_PATHS, <<"w", ".", "a", ".", "c">>, D_WHOLE}

UrlPaths == {<<"/", "v", "/", "x">>, <<"/", "u">>}

Header(name, value) == [name |-> name, value |-> value, hasValue |-> TRUE]

HeaderLists ==
    { << >>,
      << Header(<<"a">>, <<"x">>) >>,
      << Header(<<"A">>, <<"y">>) >>,
      << Header(<<"b">>, <<"x">>) >>,
      << Header(<<"C", "o", "o", "k", "i", "e">>, <<"s", "=", "y">>),
         Header(<<"a">>, <<"x">>) >> }

\* details of a webRequest event: the parsed URL and the header list. Every
\* header list is sent to the monitored path of the hosts of a.c; the other
\* hosts and paths, which the handler screens out, are sent one list.
Request(hostname, pathname, requestHeaders) ==
    [hostname |-> hostname, pathname |-> pathname, requestHeaders |-> requestHeaders]

Requests ==
    { Request(h, <<"/", "v", "/", "x">>, l) :
        h \in {D_PATHS, <<"w", ".", "a", ".", "c">>}, l \in HeaderLists }
    \cup { Request(h, p, << Header(<<"a">>, <<"x">>) >>) : h \in Hosts, p \in UrlPaths }

\* What chrome.cookies.getAll may return for a request URL (a failed lookup
\* is caught and gives the empty mapping)
Jars == { EmptyMap, (<<"s">> :> <<"x">>) }

----------------------------------------------------------------------------
(* State *)

VARIABLES
    env,                \* what the run allows: storage failures, failures of
                        \* the configuration read, handlers in flight, the
                        \* requests sent and how many of them, what the
                        \* cookie store holds for a domain, upload failures,
                        \* sync messages
    config,             \* chrome.storage.local 'config', as getConfig returns it
    store,              \* chrome.storage.local 'apiRequestState': domain -> record
    handlers,           \* the invocations of onBeforeSendHeaders
    requests,           \* requests dispatched so far
    now,                \* Date.now()
    timers,             \* setTimeout: the deadlines of the scheduled callbacks
    syncDebounceTimer,  \* the module's timer handle: <<>> or <<deadline>>
    syncTriggerCallback,\* whether the service worker registered its callback
    syncs,              \* the invocations of the trigger callback in flight
    channel,            \* history of the trigger channel
    last,               \* the handler invocation that returned last, as it ended
    observed,           \* history: the names the committed requests carried
    probe,              \* the arguments and results of a function applied alone
    lastSync,           \* chrome.storage.local 'lastSync': <<>> or <<SyncStatus>>
    syncLog,            \* history: what the invocations of performSync returned
    worker              \* the service worker: its auto-sync timer, the listeners
                        \* it registered, its calls in flight, and the history
                        \* of the auto-sync channel

vars == <<env, config, store, handlers, requests, now, timers, syncDebounceTimer,
          syncTriggerCallback, syncs, channel, last, observed, probe, lastSync, syncLog,
          worker>>

IdleHandler ==
    [pc |-> "idle", request |-> <<>>, configuredDomain |-> <<>>,
     requestData |-> <<>>, storedData |-> <<>>, mergedData |-> <<>>,
     changeResult |-> <<>>, state |-> <<>>]

\* How a handler invocation ended: why it returned, the verdict it reached
\* (<<>> when it reached none) and whether it called triggerSync
Ended(outcome, changeResult, triggered) ==
    [outcome |-> outcome, changeResult |-> changeResult, triggered |-> triggered]

\* The services in the order uploadToEnabledServices goes through them
SERVICES == <<"firebase", "supabase", "aws">>

getEnabledServices(cfg) == SelectSeq(SERVICES, LAMBDA service : service \in cfg.services)

AUTO_SYNC_DEBOUNCE_MS == 5000

\* No call of the auto-sync channel yet
NoSignal == [calls |-> 0, fired |-> 0, lastCallAt |-> 0, lastFireAt |-> 0]

\* A setupRequestMonitoring that adds its listener without removing the one
\* it added before
setupRequestMonitoring_AddsOnly(listeners) == listeners + 1

\* setupRequestMonitoring(): the registrations of onBeforeSendHeaders after
\* it removed the one there was, if any, and added one
setupRequestMonitoring(listeners) == (IF listeners > 0 THEN listeners - 1 ELSE 0) + 1

\* setupCookieChangeListener(callback): one more listener of
\* chrome.cookies.onChanged; setupAutoSync drops the cleanup function
setupCookieChangeListener(listeners) == listeners + 1

\* The service worker after initialize() with the configuration cfg:
\* setupRequestMonitoring() ran, and setupAutoSync() registered its listener
\* when autoSync was on and a service enabled
Initialized(cfg) ==
    [autoSyncTimer |-> <<>>,
     autoTimers |-> {},
     webRequestListeners |-> setupRequestMonitoring(0),
     cookieListeners |-> IF cfg.autoSync /\ Len(getEnabledServices(cfg)) > 0
                         THEN setupCookieChangeListener(0) ELSE 0,
     setups |-> <<>>,
     changes |-> <<>>,
     channel |-> NoSignal,
     configChanges |-> 0,
     cookieChanges |-> 0,
     lastConfigWrite |-> "none"]

\* Everything but the configuration and the stored snapshots
InitSystem ==
    /\ handlers = [h \in HandlerIds |-> IdleHandler]
    /\ requests = 0
    /\ now = 0
    /\ timers = {}
    /\ syncDebounceTimer = <<>>
    /\ syncTriggerCallback = TRUE
    /\ syncs = <<>>
    /\ channel = [calls |-> 0, fired |-> 0, lastCallAt |-> 0, lastFireAt |-> 0]
    /\ last = Ended("none", <<>>, FALSE)
    /\ observed = {}
    /\ lastSync = <<>>
    /\ syncLog = <<>>
    /\ worker = Initialized(config)

InitCommon ==
    /\ config = [targetDomains |-> TargetDomains, autoSync |-> TRUE,
                 services |-> {"firebase"}]
    /\ store = EmptyMap
    /\ InitSystem

\* The requests sent when the whole system runs: to the monitored path of
\* a.c, setting, changing and adding a header, and to the whole-domain host
CoreRequests ==
    { Request(D_PATHS, <<"/", "v", "/", "x">>, l) :
        l \in { << Header(<<"a">>, <<"x">>) >>, << Header(<<"A">>, <<"y">>) >>,
                << Header(<<"b">>, <<"x">>) >> } }
    \cup { Request(D_WHOLE, <<"/", "v", "/", "x">>, << Header(<<"a">>, <<"x">>) >>) }

NoProbe == [op |-> "none"]

\* The whole system: handlers may overlap, storage does not fail, the
\* cookie jar is empty
Init ==
    /\ InitCommon
    /\ probe = NoProbe
    /\ env = [faults |-> FALSE, inFlight |-> 2, requests |-> CoreRequests, jars |-> {EmptyMap},
              budget |-> MaxRequests - 1,
              configFaults |-> FALSE,
              cookieStores |-> {<< >>}, uploadFaults |-> FALSE, manualSyncs |-> 0,
              horizon |-> MaxTime, configChanges |-> 0, cookieChanges |-> 0]

\* The request handlers with every request, overlapping, storage may fail
InitHandlers ==
    /\ InitCommon
    /\ probe = NoProbe
    /\ env = [faults |-> TRUE, inFlight |-> 2, requests |-> Requests, jars |-> Jars,
              budget |-> MaxRequests,
              configFaults |-> FALSE,
              cookieStores |-> {<< >>}, uploadFaults |-> FALSE, manualSyncs |-> 0,
              horizon |-> MaxTime, configChanges |-> 0, cookieChanges |-> 0]

\* Overlapping handlers, storage does not fail
InitRace ==
    /\ InitCommon
    /\ probe = NoProbe
    /\ env = [faults |-> FALSE, inFlight |-> 2, requests |-> Requests, jars |-> Jars,
              budget |-> MaxRequests,
              configFaults |-> FALSE,
              cookieStores |-> {<< >>}, uploadFaults |-> FALSE, manualSyncs |-> 0,
              horizon |-> MaxTime, configChanges |-> 0, cookieChanges |-> 0]

\* One handler at a time, storage does not fail
InitSeq ==
    /\ InitCommon
    /\ probe = NoProbe
    /\ env = [faults |-> FALSE, inFlight |-> 1, requests |-> Requests, jars |-> Jars,
              budget |-> MaxRequests,
              configFaults |-> FALSE,
              cookieStores |-> {<< >>}, uploadFaults |-> FALSE, manualSyncs |-> 0,
              horizon |-> MaxTime, configChanges |-> 0, cookieChanges |-> 0]

\* Requests to the monitored path of two monitored domains
CrossRequests ==
    { Request(h, <<"/", "v", "/", "x">>, l) :
        h \in {D_PATHS, D_OTHER},
        l \in { << Header(<<"a">>, <<"x">>) >>, << Header(<<"b">>, <<"x">>) >> } }

\* Overlapping handlers of requests to two monitored domains, storage does
\* not fail
InitCross ==
    /\ InitCommon
    /\ probe = NoProbe
    /\ env = [faults |-> FALSE, inFlight |-> 2, requests |-> CrossRequests,
              jars |-> {EmptyMap}, budget |-> MaxRequests,
              configFaults |-> FALSE,
              cookieStores |-> {<< >>}, uploadFaults |-> FALSE, manualSyncs |-> 0,
              horizon |-> MaxTime, configChanges |-> 0, cookieChanges |-> 0]

\* Requests the handler screens out, next to one it processes: hosts of the
\* whole-domain entry, hosts no entry matches (one has a.c as a suffix that
\* is not a label suffix, one URL has no host), and paths off the patterns
ScreenRequests ==
    { Request(D_PATHS, <<"/", "v", "/", "x">>, << Header(<<"a">>, <<"x">>) >>) }
    \cup { Request(h, p, << Header(<<"b">>, <<"x">>) >>) :
             h \in {D_WHOLE, <<"w", ".", "b", ".", "c">>}, p \in UrlPaths }
    \cup { Request(h, <<"/", "v", "/", "x">>, << Header(<<"b">>, <<"x">>) >>) :
             h \in { <<"x", ".", "c">>, <<"x", "a", ".", "c">>, << >> } }
    \cup { Request(h, p, << Header(<<"b">>, <<"x">>) >>) :
             h \in {D_PATHS, <<"w", ".", "a", ".", "c">>},
             p \in { <<"/", "u">>, <<"/", "v">>, <<"/", "u", "/", "v", "/", "x">> } }

\* Overlapping handlers of requests that are mostly screened out
InitScreen ==
    /\ InitCommon
    /\ probe = NoProbe
    /\ env = [faults |-> FALSE, inFlight |-> 2, requests |-> ScreenRequests,
              jars |-> {EmptyMap}, budget |-> MaxRequests,
              configFaults |-> FALSE,
              cookieStores |-> {<< >>}, uploadFaults |-> FALSE, manualSyncs |-> 0,
              horizon |-> MaxTime, configChanges |-> 0, cookieChanges |-> 0]

\* Requests to the monitored path of a.c whose header lists name the Cookie
\* header in lower, mixed and upper case, with and without other headers,
\* and one without a Cookie header
CookieRequests ==
    { Request(D_PATHS, <<"/", "v", "/", "x">>, l) :
        l \in { << Header(<<"c", "o", "o", "k", "i", "e">>, <<"s", "=", "x">>) >>,
                << Header(<<"C", "o", "o", "k", "i", "e">>, <<"s", "=", "y">>),
                   Header(<<"a">>, <<"x">>) >>,
                << Header(<<"A">>, <<"y">>),
                   Header(<<"C", "O", "O", "K", "I", "E">>, <<"t", "=", "y">>) >>,
                << Header(<<"C", "O", "O", "K", "I", "E">>, << >>),
                   Header(<<"B">>, <<"x">>) >>,
                << Header(<<"a">>, <<"x">>) >> } }

\* Overlapping handlers of requests that carry Cookie headers
InitCookie ==
    /\ InitCommon
    /\ probe = NoProbe
    /\ env = [faults |-> FALSE, inFlight |-> 2, requests |-> CookieRequests,
              jars |-> Jars, budget |-> MaxRequests,
              configFaults |-> FALSE,
              cookieStores |-> {<< >>}, uploadFaults |-> FALSE, manualSyncs |-> 0,
              horizon |-> MaxTime, configChanges |-> 0, cookieChanges |-> 0]

\* One handler at a time; every collaborator may fail: the configuration
\* read, the cookie lookup (which then gives no cookies) and the storage calls
InitFaults ==
    /\ InitCommon
    /\ probe = NoProbe
    /\ env = [faults |-> TRUE, inFlight |-> 1, requests |-> CoreRequests, jars |-> Jars,
              budget |-> MaxRequests, configFaults |-> TRUE,
              cookieStores |-> {<< >>}, uploadFaults |-> FALSE, manualSyncs |-> 0,
              horizon |-> MaxTime, configChanges |-> 0, cookieChanges |-> 0]

\* Cookie header values without a fragment name=value with a name: empty,
\* a name alone, a value alone, separators alone
NoCookieFragment == { << >>, <<"s">>, <<"=", "x">>, <<";", " ">> }

\* Requests to the monitored path of a.c: with a Cookie header of one and of
\* two cookies, with a Cookie header that holds no cookie, without Cookie header
LookupRequests ==
    { Request(D_PATHS, <<"/", "v", "/", "x">>, l) :
        l \in { << Header(COOKIE, <<"s", "=", "x">>) >>,
                << Header(COOKIE, <<"s", "=", "x", ";", " ", "t", "=", "y">>),
                   Header(<<"a">>, <<"x">>) >>,
                << Header(<<"a">>, <<"x">>) >> }
              \cup { << Header(COOKIE, v) >> : v \in NoCookieFragment } }

\* What the cookie lookup may return: no cookie, one, or two
LookupJars == Jars \cup { (<<"s">> :> <<"z">>) @@ (<<"u">> :> <<"z">>) }

\* One handler at a time on requests with and without cookies in the header
InitLookup ==
    /\ InitCommon
    /\ probe = NoProbe
    /\ env = [faults |-> FALSE, inFlight |-> 1, requests |-> LookupRequests,
              jars |-> LookupJars, budget |-> MaxRequests, configFaults |-> FALSE,
              cookieStores |-> {<< >>}, uploadFaults |-> FALSE, manualSyncs |-> 0,
              horizon |-> MaxTime, configChanges |-> 0, cookieChanges |-> 0]

\* The whole system, one handler at a time, with storage calls that may fail
InitTrigger ==
    /\ InitCommon
    /\ probe = NoProbe
    /\ env = [faults |-> TRUE, inFlight |-> 1, requests |-> CoreRequests, jars |-> {EmptyMap},
              budget |-> MaxRequests - 1, configFaults |-> FALSE,
              cookieStores |-> {<< >>}, uploadFaults |-> FALSE, manualSyncs |-> 0,
              horizon |-> MaxTime, configChanges |-> 0, cookieChanges |-> 0]

\* Requests to the monitored path of a.c, of a subdomain of a.c, of d.c and of
\* the whole-domain host, each host with a header of its own
KeyedRequests ==
    { Request(D_PATHS, <<"/", "v", "/", "x">>, << Header(<<"a">>, <<"x">>) >>),
      Request(<<"w", ".", "a", ".", "c">>, <<"/", "v", "/", "x">>, << Header(<<"b">>, <<"x">>) >>),
      Request(D_OTHER, <<"/", "v", "/", "x">>, << Header(<<"d">>, <<"x">>) >>),
      Request(D_WHOLE, <<"/", "v", "/", "x">>, << Header(<<"e">>, <<"x">>) >>) }

\* One handler at a time on requests to several hosts
InitKeyed ==
    /\ InitCommon
    /\ probe = NoProbe
    /\ env = [faults |-> FALSE, inFlight |-> 1, requests |-> KeyedRequests,
              jars |-> {EmptyMap}, budget |-> MaxRequests, configFaults |-> FALSE,
              cookieStores |-> {<< >>}, uploadFaults |-> FALSE, manualSyncs |-> 0,
              horizon |-> MaxTime, configChanges |-> 0, cookieChanges |-> 0]

D_SUB == <<"w", ".", "a", ".", "c">>

P_V == <<"/", "v", "/", "*">>
P_U == <<"/", "u", "*">>

\* Configurations in which several entries match the host w.a.c: a.c first
\* without patterns, with a pattern off the path and with one on it; w.a.c
\* first; an entry that does not match before them; w.a.c twice
OrderedTargetDomains ==
    { << [domain |-> D_PATHS, apiPaths |-> << >>], [domain |-> D_SUB, apiPaths |-> <<P_V>>] >>,
      << [domain |-> D_PATHS, apiPaths |-> <<P_U>>], [domain |-> D_SUB, apiPaths |-> <<P_V>>] >>,
      << [domain |-> D_PATHS, apiPaths |-> <<P_V>>], [domain |-> D_SUB, apiPaths |-> <<P_V>>] >>,
      << [domain |-> D_SUB, apiPaths |-> <<P_V>>], [domain |-> D_PATHS, apiPaths |-> <<P_U>>] >>,
      << [domain |-> D_OTHER, apiPaths |-> <<P_V>>], [domain |-> D_PATHS, apiPaths |-> <<P_U>>],
         [domain |-> D_SUB, apiPaths |-> <<P_V>>] >>,
      << [domain |-> D_SUB, apiPaths |-> <<P_U>>], [domain |-> D_SUB, apiPaths |-> <<P_V>>] >> }

\* Requests to the path /v/x of the host w.a.c
OrderedRequests ==
    { Request(D_SUB, <<"/", "v", "/", "x">>, l) :
        l \in { << Header(<<"a">>, <<"x">>) >>, << Header(<<"A">>, <<"y">>) >>,
                << Header(<<"b">>, <<"x">>) >> } }

\* One handler at a time under a configuration with overlapping entries
InitOrdered ==
    /\ config \in [targetDomains : OrderedTargetDomains, autoSync : {TRUE},
                    services : {{"firebase"}}]
    /\ store = EmptyMap
    /\ InitSystem
    /\ probe = NoProbe
    /\ env = [faults |-> FALSE, inFlight |-> 1, requests |-> OrderedRequests,
              jars |-> {EmptyMap}, budget |-> MaxRequests, configFaults |-> FALSE,
              cookieStores |-> {<< >>}, uploadFaults |-> FALSE, manualSyncs |-> 0,
              horizon |-> MaxTime, configChanges |-> 0, cookieChanges |-> 0]

\* Writes of the configuration and changes of cookies, no request; the
\* cookie store holds a cookie for every domain; the clock runs a window of
\* the auto-sync channel longer than for the requests
InitWorker ==
    /\ InitCommon
    /\ probe = NoProbe
    /\ env = [faults |-> FALSE, inFlight |-> 1, requests |-> {}, jars |-> {EmptyMap},
              budget |-> 0, configFaults |-> FALSE,
              cookieStores |-> { << [name |-> <<"s">>, value |-> <<"z">>] >> },
              uploadFaults |-> FALSE, manualSyncs |-> 0,
              horizon |-> AUTO_SYNC_DEBOUNCE_MS + MaxTime,
              configChanges |-> MaxConfigChanges, cookieChanges |-> MaxCookieChanges]

\* Whether a chrome.storage.local call succeeds
StorageOutcomes == IF env.faults THEN {TRUE, FALSE} ELSE {TRUE}

\* Whether the read of 'config' inside getConfig succeeds
ConfigOutcomes == IF env.configFaults THEN {TRUE, FALSE} ELSE {TRUE}

BINANCE_COM == <<"b", "i", "n", "a", "n", "c", "e", ".", "c", "o", "m">>

\* services is the set of the services whose enabled flag is set
DEFAULT_CONFIG ==
    [targetDomains |-> << [domain |-> BINANCE_COM, apiPaths |-> << >>] >>,
     autoSync |-> FALSE,
     services |-> {}]

\* getConfig(): the stored configuration, or the default one when the read failed
getConfig(stored, ok) == IF ok THEN stored ELSE DEFAULT_CONFIG

InFlight == {h \in HandlerIds : handlers[h].pc # "idle"}

----------------------------------------------------------------------------
(* The debounced trigger *)

\* A clearTimeout that cancels nothing
clearTimeout_Noop(pending, handle) == pending

\* clearTimeout(handle)
clearTimeout(pending, handle) == IF handle = <<>> THEN pending ELSE pending \ {handle[1]}

\* What a call of triggerSync adds to the history of the channel: a call that
\* finds nothing scheduled starts a new burst
Signalled ==
    IF timers = {}
    THEN [channel EXCEPT !.calls = 1, !.fired = 0, !.lastCallAt = now]
    ELSE [channel EXCEPT !.calls = @ + 1, !.lastCallAt = now]

\* A triggerSync that schedules without cancelling
triggerSync_NoCancel ==
    /\ timers' = timers \cup {now + SYNC_DEBOUNCE_MS}
    /\ syncDebounceTimer' = <<now + SYNC_DEBOUNCE_MS>>
    /\ channel' = Signalled

\* triggerSync(): cancel the scheduled callback, schedule a new one
triggerSync ==
    /\ timers' = clearTimeout(timers, syncDebounceTimer) \cup {now + SYNC_DEBOUNCE_MS}
    /\ syncDebounceTimer' = <<now + SYNC_DEBOUNCE_MS>>
    /\ channel' = Signalled

\* The continuation of the handler after updateStoredData returned
MaybeTrigger(shouldSync) ==
    IF shouldSync THEN triggerSync
    ELSE UNCHANGED <<timers, syncDebounceTimer, channel>>

----------------------------------------------------------------------------
(* onBeforeSendHeaders *)

\* A find that returns the last entry that matches
FindDomainConfig_Last(targetDomains, domain) ==
    LET hits == {i \in 1..Len(targetDomains) : matchesDomain(domain, targetDomains[i].domain)}
    IN IF hits = {} THEN <<>>
       ELSE << targetDomains[CHOOSE i \in hits : \A j \in hits : i >= j] >>

\* config.targetDomains.find(d => matchesDomain(domain, d.domain)): <<>> or <<entry>>
FindDomainConfig(targetDomains, domain) ==
    LET hits == {i \in 1..Len(targetDomains) : matchesDomain(domain, targetDomains[i].domain)}
    IN IF hits = {} THEN <<>>
       ELSE << targetDomains[CHOOSE i \in hits : \A j \in hits : i <= j] >>

\* A return that leaves the handler wedged after a failed commit
Return_Wedged(h, outcome, triggered) ==
    /\ handlers' = [handlers EXCEPT ![h] =
                       IF outcome = "commitFailed" THEN [@ EXCEPT !.pc = "failed"]
                       ELSE IdleHandler]
    /\ last' = Ended(outcome, handlers[h].changeResult, triggered)

\* The handler h returns: its slot is free again, and how it ended is kept
Return(h, outcome, triggered) ==
    /\ handlers' = [handlers EXCEPT ![h] = IdleHandler]
    /\ last' = Ended(outcome, handlers[h].changeResult, triggered)

\* The webRequest event is dispatched: every registered listener starts a
\* handler, which awaits getConfig(); h is the first of them
Start(h) ==
    /\ requests < env.budget
    /\ \E invoked \in SUBSET HandlerIds, details \in env.requests :
          /\ h \in invoked
          /\ \A g \in invoked : handlers[g].pc = "idle" /\ h <= g
          /\ Cardinality(invoked) = worker.webRequestListeners
          /\ Cardinality(InFlight) + Cardinality(invoked) <= env.inFlight
          /\ handlers' = [g \in HandlerIds |->
                 IF g \in invoked
                 THEN [IdleHandler EXCEPT !.pc = "getConfig", !.request = <<details>>]
                 ELSE handlers[g]]
    /\ requests' = requests + 1
    /\ UNCHANGED <<env, config, store, now, timers, syncDebounceTimer,
                   syncTriggerCallback, syncs, channel, last, observed, probe,
                   lastSync, syncLog,
                   worker>>

\* A screening that monitors every path of a domain without patterns
Screen_WholeDomainMonitored(details, targetDomains) ==
    LET domain == details.hostname
        domainConfig == FindDomainConfig(targetDomains, domain)
    IN IF domain = <<>> THEN "noDomain"
       ELSE IF domainConfig = <<>> THEN "domainNotMatched"
       ELSE IF Len(domainConfig[1].apiPaths) = 0 THEN "matched"
       ELSE IF ~matchesApiPath(details.pathname, domainConfig[1].apiPaths)
       THEN "pathNotMatched"
       ELSE "matched"

\* Why the handler returns without processing the request, or "matched"
Screen(details, targetDomains) ==
    LET domain == details.hostname
        domainConfig == FindDomainConfig(targetDomains, domain)
    IN IF domain = <<>> THEN "noDomain"
       ELSE IF domainConfig = <<>> THEN "domainNotMatched"
       ELSE IF Len(domainConfig[1].apiPaths) = 0 THEN "noApiPaths"
       ELSE IF ~matchesApiPath(details.pathname, domainConfig[1].apiPaths)
       THEN "pathNotMatched"
       ELSE "matched"

\* A handler that keeps the host of the request as the storage key
AfterMatch_KeyedByHost(handler, targetDomains) ==
    LET details == handler.request[1]
        matched == [handler EXCEPT !.configuredDomain = <<details.hostname>>]
    IN IF Cardinality(Keys(CookiesOfHeader(details.requestHeaders))) = 0
       THEN [matched EXCEPT !.pc = "getCookies"]
       ELSE [matched EXCEPT
                !.pc = "getStored",
                !.request = <<>>,
                !.requestData = <<extractRequestData(details.requestHeaders, EmptyMap)>>]

\* A handler that asks the cookie lookup for every matched request
AfterMatch_AlwaysLooksUp(handler, targetDomains) ==
    LET details == handler.request[1]
        domainConfig == FindDomainConfig(targetDomains, details.hostname)
    IN [handler EXCEPT !.configuredDomain = <<domainConfig[1].domain>>,
                       !.pc = "getCookies"]

\* The handler of a matched request after the synchronous part of
\* extractRequestData: it awaits the cookie lookup when the Cookie header gave
\* no cookie, and the stored snapshot otherwise
AfterMatch(handler, targetDomains) ==
    LET details == handler.request[1]
        domainConfig == FindDomainConfig(targetDomains, details.hostname)
        matched == [handler EXCEPT !.configuredDomain = <<domainConfig[1].domain>>]
    IN IF Cardinality(Keys(CookiesOfHeader(details.requestHeaders))) = 0
       THEN [matched EXCEPT !.pc = "getCookies"]
       ELSE [matched EXCEPT
                !.pc = "getStored",
                !.request = <<>>,
                !.requestData = <<extractRequestData(details.requestHeaders, EmptyMap)>>]

\* getConfig() resolved: match the domain and the path, start the extraction
ConfigRead(h) ==
    /\ handlers[h].pc = "getConfig"
    /\ \E ok \in ConfigOutcomes :
          LET targetDomains == getConfig(config, ok).targetDomains
              outcome == Screen(handlers[h].request[1], targetDomains)
          IN IF outcome = "matched"
             THEN /\ handlers' = [handlers EXCEPT ![h] = AfterMatch(@, targetDomains)]
                  /\ UNCHANGED last
             ELSE Return(h, outcome, FALSE)
    /\ UNCHANGED <<env, config, store, requests, now, timers, syncDebounceTimer,
                   syncTriggerCallback, syncs, channel, observed, probe,
                   lastSync, syncLog,
                   worker>>

\* A getCookiesForUrl that returns the error as a cookie
getCookiesForUrl_ErrorAsCookie(jar, ok) == IF ok THEN jar ELSE (<<"e">> :> <<"r">>)

\* getCookiesForUrl(url): the cookies chrome.cookies.getAll gave, by name, or
\* the empty object when it failed
getCookiesForUrl(jar, ok) == IF ok THEN jar ELSE EmptyMap

\* chrome.cookies.getAll resolved or failed: extractRequestData returns
CookieLookup(h) ==
    /\ handlers[h].pc = "getCookies"
    /\ \E jar \in env.jars, ok \in BOOLEAN :
          handlers' = [handlers EXCEPT ![h] =
              [@ EXCEPT !.pc = "getStored",
                        !.request = <<>>,
                        !.requestData =
                            <<extractRequestData(handlers[h].request[1].requestHeaders,
                                                 getCookiesForUrl(jar, ok))>>]]
    /\ UNCHANGED <<env, config, store, requests, now, timers, syncDebounceTimer,
                   syncTriggerCallback, syncs, channel, last, observed, probe,
                   lastSync, syncLog,
                   worker>>

\* A getStoredDataForDomain whose failed read gives a record without cookies
\* and headers
getStoredDataForDomain_EmptyOnFailure(state, domain, ok) ==
    IF ~ok THEN <<[cookies |-> EmptyMap, headers |-> EmptyMap, timestamp |-> 0]>>
    ELSE IF domain \in DOMAIN state THEN <<state[domain]>> ELSE <<>>

\* getStoredDataForDomain(domain) against the stored state; a failed read is null
getStoredDataForDomain(state, domain, ok) ==
    IF ok /\ domain \in DOMAIN state THEN <<state[domain]>> ELSE <<>>

\* The handler after the stored snapshot arrived: it merged, judged the
\* change and called updateStoredData, which awaits its own read
AfterStoredData(handler, storedData) ==
    LET mergedData == mergeRequestData(storedData, handler.requestData[1]) IN
    [handler EXCEPT !.pc = "updateGet",
                    !.storedData = storedData,
                    !.mergedData = <<mergedData>>,
                    !.changeResult = <<compareAndDetectChanges(mergedData, storedData)>>]

StoreRead(h) ==
    /\ handlers[h].pc = "getStored"
    /\ \E ok \in StorageOutcomes :
          handlers' = [handlers EXCEPT ![h] =
              AfterStoredData(@, getStoredDataForDomain(store, @.configuredDomain[1], ok))]
    /\ UNCHANGED <<env, config, store, requests, now, timers, syncDebounceTimer,
                   syncTriggerCallback, syncs, channel, last, observed, probe,
                   lastSync, syncLog,
                   worker>>

\* An updateStoredData that writes an object with the one domain only
updateStoredData_OnlyDomain(state, domain, data, timestamp) ==
    domain :> [cookies |-> data.cookies, headers |-> data.headers, timestamp |-> timestamp]

\* updateStoredData(domain, data): the state object it read, with
\* state[domain] assigned, which it writes back
updateStoredData(state, domain, data, timestamp) ==
    Put(state, domain,
        [cookies |-> data.cookies, headers |-> data.headers, timestamp |-> timestamp])

\* A commit that is skipped when the verdict asks for no sync
CommitOf_OnlyOnSync(handler, state, timestamp) ==
    IF handler.changeResult[1].shouldSync
    THEN updateStoredData(state, handler.configuredDomain[1], handler.mergedData[1],
                          timestamp)
    ELSE state

\* What the handler has updateStoredData write, whatever the verdict: the
\* merged data under the configured domain
CommitOf(handler, state, timestamp) ==
    updateStoredData(state, handler.configuredDomain[1], handler.mergedData[1], timestamp)

\* A handler that signals the trigger once the read inside updateStoredData
\* resolved, before the write
UpdateGet_SignalsBeforeWrite(h) ==
    /\ handlers[h].pc = "updateGet"
    /\ \E ok \in StorageOutcomes :
          IF ok
          THEN /\ handlers' = [handlers EXCEPT ![h] =
                      [@ EXCEPT !.pc = "updateSet",
                                !.state = <<CommitOf(handlers[h], store, now)>>]]
               /\ UNCHANGED last
          ELSE Return(h, "commitFailed", handlers[h].changeResult[1].shouldSync)
    /\ MaybeTrigger(handlers[h].changeResult[1].shouldSync)
    /\ UNCHANGED <<env, config, store, requests, now, syncTriggerCallback, syncs,
                   observed, probe, lastSync, syncLog,
                   worker>>

\* The read inside updateStoredData resolved: it assigns state[domain] and
\* awaits the write; when the read failed, updateStoredData logs and returns,
\* and the handler goes on to the trigger.
UpdateGet(h) ==
    /\ handlers[h].pc = "updateGet"
    /\ \E ok \in StorageOutcomes :
          IF ok
          THEN /\ handlers' = [handlers EXCEPT ![h] =
                      [@ EXCEPT !.pc = "updateSet",
                                !.state = <<CommitOf(handlers[h], store, now)>>]]
               /\ UNCHANGED <<timers, syncDebounceTimer, channel, last>>
          ELSE /\ Return(h, "commitFailed", handlers[h].changeResult[1].shouldSync)
               /\ MaybeTrigger(handlers[h].changeResult[1].shouldSync)
    /\ UNCHANGED <<env, config, store, requests, now, syncTriggerCallback, syncs,
                   observed, probe,
                   lastSync, syncLog,
                   worker>>

\* The names of the cookies and headers of a request's data, under its domain
NamesOf(handler) ==
    { <<handler.configuredDomain[1], "cookies", k>> :
        k \in Keys(handler.requestData[1].cookies) }
    \cup { <<handler.configuredDomain[1], "headers", k>> :
             k \in Keys(handler.requestData[1].headers) }

\* The write inside updateStoredData resolved (or failed, which is logged);
\* the handler then signals the trigger when the verdict says so
UpdateSet(h) ==
    /\ handlers[h].pc = "updateSet"
    /\ \E ok \in StorageOutcomes :
          /\ store' = IF ok THEN handlers[h].state[1] ELSE store
          /\ observed' = IF ok THEN observed \cup NamesOf(handlers[h]) ELSE observed
          /\ Return(h, IF ok THEN "committed" ELSE "commitFailed",
                    handlers[h].changeResult[1].shouldSync)
    /\ MaybeTrigger(handlers[h].changeResult[1].shouldSync)
    /\ UNCHANGED <<env, config, requests, now, syncTriggerCallback, syncs, probe,
                   lastSync, syncLog,
                   worker>>

----------------------------------------------------------------------------
(* Time, the timer callback and the service worker's trigger callback *)

\* Time passes, but not beyond the deadline of a scheduled callback
Tick ==
    /\ now + TickMs <= env.horizon
    /\ \A deadline \in timers \cup worker.autoTimers : now + TickMs <= deadline
    /\ now' = now + TickMs
    /\ UNCHANGED <<env, config, store, handlers, requests, timers, syncDebounceTimer,
                   syncTriggerCallback, syncs, channel, last, observed, probe,
                   lastSync, syncLog,
                   worker>>

\* An invocation of the trigger callback or of performSync: where it is, the
\* stored state its performSync read (<<>> before it read), what the cookie
\* store gave it for each configured domain, and the payloads it built
SyncRun(pc, data) == [pc |-> pc, data |-> data, reads |-> <<>>, domainCookies |-> <<>>]

\* The timeout set by triggerSync expires: it calls syncTriggerCallback when
\* one is set; the callback starts by awaiting getConfig()
TimerFires ==
    /\ \E deadline \in timers :
          /\ deadline <= now
          /\ timers' = timers \ {deadline}
    /\ IF syncTriggerCallback
       THEN /\ syncs' = Append(syncs, SyncRun("callback", <<>>))
            /\ channel' = [channel EXCEPT !.fired = @ + 1, !.lastFireAt = now]
       ELSE UNCHANGED <<syncs, channel>>
    /\ UNCHANGED <<env, config, store, handlers, requests, now, syncDebounceTimer,
                   syncTriggerCallback, last, observed, probe,
                   lastSync, syncLog,
                   worker>>

ReplaceAt(seq, i, x) == [seq EXCEPT ![i] = x]
RemoveAt(seq, i) == SubSeq(seq, 1, i - 1) \o SubSeq(seq, i + 1, Len(seq))

\* The callback's getConfig() resolved: performSync() runs only with autoSync on
CallbackConfig(i) ==
    /\ i \in DOMAIN syncs
    /\ syncs[i].pc = "callback"
    /\ \E ok \in ConfigOutcomes :
          syncs' = IF getConfig(config, ok).autoSync
                   THEN ReplaceAt(syncs, i, SyncRun("performSync", <<>>))
                   ELSE RemoveAt(syncs, i)
    /\ UNCHANGED <<env, config, store, handlers, requests, now, timers,
                   syncDebounceTimer, syncTriggerCallback, channel, last, observed, probe,
                   lastSync, syncLog,
                   worker>>

\* The popup sends the message 'sync': performSync() is called
ManualSync ==
    /\ Len(syncs) + Len(syncLog) < env.manualSyncs
    /\ Len(syncs) < env.inFlight
    /\ syncs' = Append(syncs, SyncRun("performSync", <<>>))
    /\ UNCHANGED <<env, config, store, handlers, requests, now, timers, syncDebounceTimer,
                   syncTriggerCallback, channel, last, observed, probe, lastSync, syncLog,
                   worker>>

\* getAllStoredApiData(): for every configured domain its record in the state
\* that was read, or null; no entry at all when the read failed
getAllStoredApiData(targetDomains, state, ok) ==
    IF ~ok THEN << >>
    ELSE [i \in 1..Len(targetDomains) |->
            [domain |-> targetDomains[i].domain,
             data |-> IF targetDomains[i].domain \in DOMAIN state
                      THEN <<state[targetDomains[i].domain]>> ELSE <<>>]]

\* apiDataMap.get(domain): the data of the last entry of that domain, <<>> for
\* null and for no entry
ApiDataOf(apiData, domain) ==
    LET hits == {i \in 1..Len(apiData) : apiData[i].domain = domain}
    IN IF hits = {} THEN <<>>
       ELSE apiData[CHOOSE i \in hits : \A j \in hits : j <= i].data

\* formatCookiesForUpload(cookies): the cookie objects of the cookie store,
\* of which the name and the value are kept here
formatCookiesForUpload(cookies, timestamp) ==
    [timestamp |-> timestamp,
     cookies |-> [i \in 1..Len(cookies) |->
                     [name |-> cookies[i].name, value |-> cookies[i].value]],
     count |-> Len(cookies)]

formatCookiesHeadersForUpload(cookies, headers, timestamp) ==
    [timestamp |-> timestamp, cookies |-> cookies, headers |-> headers]

\* A choice of the snapshot that does not look at the patterns of the entry
UsesStoredApiData_IgnoresPaths(domainConfig, apiData) ==
    ApiDataOf(apiData, domainConfig.domain) # <<>>

\* Whether the loop of getFormattedCookiesByDomain takes the stored snapshot
\* for this entry (a stored record always has its cookies and headers)
UsesStoredApiData(domainConfig, apiData) ==
    /\ Len(domainConfig.apiPaths) > 0
    /\ ApiDataOf(apiData, domainConfig.domain) # <<>>

\* A loop body that pushes a payload also when the cookie store gave no cookie
DomainPayload_PushesEmpty(domainConfig, apiData, cookies, timestamp) ==
    IF UsesStoredApiData(domainConfig, apiData)
    THEN LET storedApiData == ApiDataOf(apiData, domainConfig.domain)[1] IN
         << [domain |-> domainConfig.domain,
             cookieData |-> formatCookiesHeadersForUpload(
                                storedApiData.cookies, storedApiData.headers, timestamp)] >>
    ELSE << [domain |-> domainConfig.domain,
             cookieData |-> formatCookiesForUpload(cookies, timestamp)] >>

\* What the loop pushes for one entry of targetDomains, given what
\* chrome.cookies.getAll({ domain }) resolves to when it is asked (a failed
\* call is caught and pushes nothing, like an empty result)
DomainPayload(domainConfig, apiData, cookies, timestamp) ==
    IF UsesStoredApiData(domainConfig, apiData)
    THEN LET storedApiData == ApiDataOf(apiData, domainConfig.domain)[1] IN
         << [domain |-> domainConfig.domain,
             cookieData |-> formatCookiesHeadersForUpload(
                                storedApiData.cookies, storedApiData.headers, timestamp)] >>
    ELSE IF Len(cookies) > 0
    THEN << [domain |-> domainConfig.domain,
             cookieData |-> formatCookiesForUpload(cookies, timestamp)] >>
    ELSE << >>

\* getFormattedCookiesByDomain(): the payloads of the first n entries
RECURSIVE PayloadsUpTo(_, _, _, _, _)
PayloadsUpTo(n, targetDomains, apiData, reads, timestamp) ==
    IF n = 0 THEN << >>
    ELSE PayloadsUpTo(n - 1, targetDomains, apiData, reads, timestamp)
         \o DomainPayload(targetDomains[n], apiData, reads[n], timestamp)

getFormattedCookiesByDomain(targetDomains, apiData, reads, timestamp) ==
    PayloadsUpTo(Len(targetDomains), targetDomains, apiData, reads, timestamp)

\* The entries for which the cookie store is asked
AsksCookieStore(targetDomains, apiData) ==
    {i \in 1..Len(targetDomains) : ~UsesStoredApiData(targetDomains[i], apiData)}

NO_SERVICES == "No storage services enabled"
NO_COOKIES == "No cookies found for configured domains"
STORAGE_ERROR == "storage error"

\* What performSync returns when it stops early
Failure(error) == [success |-> FALSE, error |-> error]

\* performSync() leaves: what it returned is kept, its run is over
SyncEnds(i, returned) ==
    /\ syncs' = RemoveAt(syncs, i)
    /\ syncLog' = Append(syncLog, returned)

\* performSync up to the uploads: it reads the enabled services and returns
\* when there is none; it reads the stored state through getAllStoredApiData,
\* asks the cookie store for the entries without snapshot, and returns when
\* no payload came out of it
SyncReadsState(i) ==
    /\ i \in DOMAIN syncs
    /\ syncs[i].pc = "performSync"
    /\ IF Len(getEnabledServices(config)) = 0
       THEN SyncEnds(i, Failure(NO_SERVICES))
       ELSE \E ok \in StorageOutcomes :
            LET targetDomains == config.targetDomains
                apiData == getAllStoredApiData(targetDomains, store, ok)
            IN \E reads \in [1..Len(targetDomains) -> env.cookieStores] :
                  LET domainCookies ==
                          getFormattedCookiesByDomain(targetDomains, apiData, reads, now)
                  IN /\ \A n \in 1..Len(targetDomains) :
                           n \notin AsksCookieStore(targetDomains, apiData)
                               => reads[n] = << >>
                     /\ IF Len(domainCookies) = 0
                        THEN SyncEnds(i, Failure(NO_COOKIES))
                        ELSE /\ syncs' = ReplaceAt(syncs, i,
                                    [pc |-> "upload",
                                     data |-> IF ok THEN <<store>> ELSE <<>>,
                                     reads |-> reads,
                                     domainCookies |-> domainCookies])
                             /\ UNCHANGED syncLog
    /\ UNCHANGED <<env, config, store, handlers, requests, now, timers,
                   syncDebounceTimer, syncTriggerCallback, channel, last, observed, probe,
                   lastSync,
                   worker>>

\* Whether an upload to a service succeeds; a failed upload is caught by the
\* upload function and returned as { success: false }
UploadOutcomes == IF env.uploadFaults THEN {TRUE, FALSE} ELSE {TRUE}

\* An uploadToEnabledServices that gives up at the first upload that fails
uploadToEnabledServices_StopsAtFailure(n, enabledServices, outcome) ==
    LET failed == {k \in 1..Len(enabledServices) : ~outcome[<<n, enabledServices[k]>>]}
        upTo == IF failed = {} THEN Len(enabledServices)
                ELSE CHOOSE k \in failed : \A j \in failed : k <= j
    IN [k \in 1..upTo |->
           [success |-> outcome[<<n, enabledServices[k]>>], service |-> enabledServices[k]]]

\* uploadToEnabledServices(cookieData, domain) for the n-th payload: one
\* result per enabled service, in the order of the services
uploadToEnabledServices(n, enabledServices, outcome) ==
    [k \in 1..Len(enabledServices) |->
        [success |-> outcome[<<n, enabledServices[k]>>], service |-> enabledServices[k]]]

\* uploadAllDomainsToEnabledServices(domainCookies): the results of the first
\* n payloads, each with the domain of its payload
RECURSIVE UploadsUpTo(_, _, _, _)
UploadsUpTo(n, domainCookies, enabledServices, outcome) ==
    IF n = 0 THEN << >>
    ELSE LET results == uploadToEnabledServices(n, enabledServices, outcome) IN
         UploadsUpTo(n - 1, domainCookies, enabledServices, outcome)
         \o [k \in 1..Len(results) |->
                [success |-> results[k].success, service |-> results[k].service,
                 domain |-> domainCookies[n].domain]]

uploadAllDomainsToEnabledServices(domainCookies, enabledServices, outcome) ==
    UploadsUpTo(Len(domainCookies), domainCookies, enabledServices, outcome)

\* cookieData.cookies is an array for a payload of the cookie store and an
\* object for a payload of a snapshot
CookieCountOf(cookieData) ==
    IF "count" \in DOMAIN cookieData THEN Len(cookieData.cookies)
    ELSE Cardinality(Keys(cookieData.cookies))

RECURSIVE TotalCookieCount(_)
TotalCookieCount(domainCookies) ==
    IF domainCookies = << >> THEN 0
    ELSE CookieCountOf(Head(domainCookies).cookieData) + TotalCookieCount(Tail(domainCookies))

SyncStatusOf(domainCookies, uploadResults, timestamp) ==
    [timestamp |-> timestamp,
     success |-> \A k \in 1..Len(uploadResults) : uploadResults[k].success,
     cookieCount |-> TotalCookieCount(domainCookies),
     domainCount |-> Len(domainCookies),
     results |-> uploadResults]

\* What performSync returns after the uploads
SyncResultOf(syncStatus) ==
    [success |-> syncStatus.success,
     partialSuccess |-> /\ ~syncStatus.success
                        /\ \E k \in 1..Len(syncStatus.results) : syncStatus.results[k].success,
     cookieCount |-> syncStatus.cookieCount,
     domainCount |-> syncStatus.domainCount,
     results |-> syncStatus.results]

ErrorStatus(timestamp) == [timestamp |-> timestamp, success |-> FALSE, error |-> STORAGE_ERROR]

\* The rest of performSync: the uploads to the enabled services, payload by
\* payload, and the write of lastSync. When the write fails, the catch block
\* writes the error status instead; when that fails too, performSync rejects
\* and nothing is written.
SyncReturns(i) ==
    /\ i \in DOMAIN syncs
    /\ syncs[i].pc = "upload"
    /\ LET domainCookies == syncs[i].domainCookies
           enabledServices == getEnabledServices(config)
       IN \E outcome \in [(1..Len(domainCookies)) \X config.services -> UploadOutcomes],
             saved \in StorageOutcomes, savedError \in StorageOutcomes :
             LET uploadResults == uploadAllDomainsToEnabledServices(
                                      domainCookies, enabledServices, outcome)
                 syncStatus == SyncStatusOf(domainCookies, uploadResults, now)
             IN /\ lastSync' = IF saved THEN <<syncStatus>>
                               ELSE IF savedError THEN <<ErrorStatus(now)>>
                               ELSE lastSync
                /\ SyncEnds(i, IF saved THEN SyncResultOf(syncStatus)
                               ELSE Failure(STORAGE_ERROR))
    /\ UNCHANGED <<env, config, store, handlers, requests, now, timers,
                   syncDebounceTimer, syncTriggerCallback, channel, last, observed, probe,
                   worker>>

----------------------------------------------------------------------------
(* The service worker: configuration changes and the auto-sync channel *)

\* The listener of chrome.storage.onChanged for a change of 'config': it
\* calls setupAutoSync(), which awaits getConfig(), and setupRequestMonitoring()
ConfigChanged(w, writer) ==
    [w EXCEPT !.configChanges = @ + 1,
              !.lastConfigWrite = writer,
              !.setups = Append(@, "getConfig"),
              !.webRequestListeners = setupRequestMonitoring(@)]

\* A write of 'config' by a page: the stored value, and the listener of the
\* service worker when the value changed
ConfigWritten(cfg, writer) ==
    /\ worker.configChanges < env.configChanges
    /\ config' = cfg
    /\ worker' = IF cfg # config THEN ConfigChanged(worker, writer)
                  ELSE [worker EXCEPT !.configChanges = @ + 1, !.lastConfigWrite = writer]
    /\ UNCHANGED <<env, store, handlers, requests, now, timers, syncDebounceTimer,
                   syncTriggerCallback, syncs, channel, last, observed, probe,
                   lastSync, syncLog>>

\* toggleAutoSync(enabled) of the popup: the stored configuration with
\* autoSync set
toggleAutoSync(cfg, enabled) == [cfg EXCEPT !.autoSync = enabled]

\* The toggle of the popup is switched
ToggleAutoSync == ConfigWritten(toggleAutoSync(config, ~config.autoSync), "popup")

\* The configuration saveConfiguration() builds from the form of the options
\* page, whose fields hold the domains and services
saveConfiguration(domainConfigs, services) ==
    [targetDomains |-> domainConfigs, autoSync |-> FALSE, services |-> services]

\* The form of the options page is submitted with the domains and services
\* it loaded
SaveConfiguration ==
    ConfigWritten(saveConfiguration(config.targetDomains, config.services), "options")

\* setupAutoSync(): its getConfig() resolved; it returns when autoSync is
\* off and awaits getEnabledServices() otherwise
SetupAutoSyncConfig ==
    /\ worker.setups # <<>>
    /\ worker.setups[1] = "getConfig"
    /\ \E ok \in ConfigOutcomes :
          worker' = [worker EXCEPT !.setups =
                        IF getConfig(config, ok).autoSync
                        THEN <<"getEnabledServices">> \o Tail(@)
                        ELSE Tail(@)]
    /\ UNCHANGED <<env, config, store, handlers, requests, now, timers, syncDebounceTimer,
                   syncTriggerCallback, syncs, channel, last, observed, probe,
                   lastSync, syncLog>>

\* setupAutoSync(): getEnabledServices() resolved; with a service enabled it
\* registers a listener of chrome.cookies.onChanged
SetupAutoSyncServices ==
    /\ worker.setups # <<>>
    /\ worker.setups[1] = "getEnabledServices"
    /\ \E ok \in ConfigOutcomes :
          worker' = [worker EXCEPT
                        !.setups = Tail(@),
                        !.cookieListeners =
                            IF Len(getEnabledServices(getConfig(config, ok))) = 0 THEN @
                            ELSE setupCookieChangeListener(@)]
    /\ UNCHANGED <<env, config, store, handlers, requests, now, timers, syncDebounceTimer,
                   syncTriggerCallback, syncs, channel, last, observed, probe,
                   lastSync, syncLog>>

\* changeInfo of chrome.cookies.onChanged
ChangeInfo(domain, removed, cause) ==
    [cookie |-> [domain |-> domain], removed |-> removed, cause |-> cause]

\* A cookie of a.c set by a page, one of a.c overwritten (the removal and the
\* insertion are reported), one of a subdomain expired, one of another site set
ChangeInfos ==
    { ChangeInfo(<<".", "a", ".", "c">>, FALSE, "explicit"),
      ChangeInfo(D_PATHS, TRUE, "overwrite"),
      ChangeInfo(<<"w", ".", "a", ".", "c">>, FALSE, "expired"),
      ChangeInfo(<<"x", ".", "c">>, FALSE, "explicit") }

\* The listener setupCookieChangeListener registers: whether it calls the callback
ListenerCalls(changeInfo) == changeInfo.removed \/ changeInfo.cause = "explicit"

\* isCookieChangeForDomain(changeInfo, domains)
isCookieChangeForDomain(changeInfo, domains) ==
    \E i \in DOMAIN domains :
        LET cleanDomain == StripLeadingDot(domains[i])
            cookieDomain == changeInfo.cookie.domain
        IN \/ cookieDomain = cleanDomain
           \/ EndsWith(cookieDomain, <<".">> \o cleanDomain)

\* chrome.cookies.onChanged fires: every registered listener that lets the
\* change through calls the callback, which awaits getConfig()
CookieChanged ==
    /\ worker.cookieChanges < env.cookieChanges
    /\ \E changeInfo \in ChangeInfos :
          worker' = [worker EXCEPT
                        !.cookieChanges = @ + 1,
                        !.changes = IF ListenerCalls(changeInfo)
                                    THEN @ \o [i \in 1..worker.cookieListeners |-> changeInfo]
                                    ELSE @]
    /\ UNCHANGED <<env, config, store, handlers, requests, now, timers, syncDebounceTimer,
                   syncTriggerCallback, syncs, channel, last, observed, probe,
                   lastSync, syncLog>>

\* What a scheduling adds to the history of the auto-sync channel: one that
\* finds nothing scheduled starts a new burst
AutoSignalled(w, at) ==
    IF w.autoTimers = {}
    THEN [w.channel EXCEPT !.calls = 1, !.fired = 0, !.lastCallAt = at]
    ELSE [w.channel EXCEPT !.calls = @ + 1, !.lastCallAt = at]

\* A callback that schedules without clearing the timer
DebounceAutoSync_NoClear(w, at) ==
    [w EXCEPT !.autoTimers = @ \cup {at + AUTO_SYNC_DEBOUNCE_MS},
              !.autoSyncTimer = <<at + AUTO_SYNC_DEBOUNCE_MS>>,
              !.channel = AutoSignalled(w, at)]

\* if (autoSyncTimer) clearTimeout(autoSyncTimer); autoSyncTimer = setTimeout(...)
DebounceAutoSync(w, at) ==
    [w EXCEPT !.autoTimers = clearTimeout(@, w.autoSyncTimer) \cup {at + AUTO_SYNC_DEBOUNCE_MS},
              !.autoSyncTimer = <<at + AUTO_SYNC_DEBOUNCE_MS>>,
              !.channel = AutoSignalled(w, at)]

\* The callback of setupAutoSync after its getConfig() resolved: it returns
\* for a cookie of no configured domain and when autoSync is off, and
\* otherwise schedules performSync; the callbacks resolve in the order of
\* their calls
CookieCallback ==
    /\ worker.changes # <<>>
    /\ \E ok \in ConfigOutcomes :
          LET currentConfig == getConfig(config, ok)
              domains == [i \in DOMAIN currentConfig.targetDomains |->
                             currentConfig.targetDomains[i].domain]
              returned == [worker EXCEPT !.changes = Tail(@)]
          IN worker' = IF ~isCookieChangeForDomain(worker.changes[1], domains) THEN returned
                       ELSE IF ~currentConfig.autoSync THEN returned
                       ELSE DebounceAutoSync(returned, now)
    /\ UNCHANGED <<env, config, store, handlers, requests, now, timers, syncDebounceTimer,
                   syncTriggerCallback, syncs, channel, last, observed, probe,
                   lastSync, syncLog>>

\* The timeout of the auto-sync channel expires: performSync() is called
AutoSyncTimerFires ==
    /\ \E deadline \in worker.autoTimers :
          /\ deadline <= now
          /\ worker' = [worker EXCEPT
                           !.autoTimers = @ \ {deadline},
                           !.channel = [@ EXCEPT !.fired = @ + 1, !.lastFireAt = now]]
    /\ syncs' = Append(syncs, SyncRun("performSync", <<>>))
    /\ UNCHANGED <<env, config, store, handlers, requests, now, timers, syncDebounceTimer,
                   syncTriggerCallback, channel, last, observed, probe,
                   lastSync, syncLog>>

\* The pages that write the configuration, the cookie store and the steps of
\* the service worker that follow
WorkerNext ==
    \/ ToggleAutoSync
    \/ SaveConfiguration
    \/ SetupAutoSyncConfig
    \/ SetupAutoSyncServices
    \/ CookieChanged
    \/ CookieCallback
    \/ AutoSyncTimerFires

----------------------------------------------------------------------------
(* performSync on its own *)

\* Sync messages in one behaviour
MaxSyncs == 2

\* The configured domains of the syncs: a.c with a pattern, b.c without
SyncTargetDomains ==
    << [domain |-> D_PATHS, apiPaths |-> << <<"/", "v", "/", "*">> >>],
       [domain |-> D_WHOLE, apiPaths |-> << >>] >>

\* The stored state when the syncs run: a.c without record, with a record,
\* or with a record whose cookies and headers are empty; b.c without record,
\* or with one kept from a time when b.c had patterns
SyncStores ==
    LET ofPaths == { EmptyMap,
                     D_PATHS :> [cookies |-> (<<"s">> :> <<"x">>),
                                 headers |-> (<<"a">> :> <<"x">>), timestamp |-> 0],
                     D_PATHS :> [cookies |-> EmptyMap, headers |-> EmptyMap,
                                 timestamp |-> 0] }
        ofWhole == { EmptyMap,
                     D_WHOLE :> [cookies |-> (<<"t">> :> <<"y">>),
                                 headers |-> (<<"b">> :> <<"y">>), timestamp |-> 0] }
    IN { p @@ w : p \in ofPaths, w \in ofWhole }

\* What chrome.cookies.getAll({ domain }) may resolve to: no cookie, or one
CookieStores == { << >>, << [name |-> <<"s">>, value |-> <<"z">>] >> }

\* Syncs one after the other, asked for by messages: any of two services is
\* enabled, uploads may fail, storage does not
InitSync ==
    /\ \E services \in SUBSET {"firebase", "aws"} :
          config = [targetDomains |-> SyncTargetDomains, autoSync |-> FALSE,
                    services |-> services]
    /\ InitSystem
    /\ probe = NoProbe
    /\ store \in SyncStores
    /\ env = [faults |-> FALSE, inFlight |-> 1, requests |-> {}, jars |-> {},
              budget |-> 0, configFaults |-> FALSE,
              cookieStores |-> CookieStores, uploadFaults |-> TRUE,
              manualSyncs |-> MaxSyncs,
              horizon |-> MaxTime, configChanges |-> 0, cookieChanges |-> 0]

SyncNext ==
    \/ ManualSync
    \/ \E i \in 1..MaxSyncs : SyncReadsState(i)
    \/ \E i \in 1..MaxSyncs : SyncReturns(i)

SpecSync == InitSync /\ [][SyncNext]_vars

----------------------------------------------------------------------------
(* compareAndDetectChanges and mergeRequestData applied alone *)

\* Header names in the arguments
MaxHeaderNames == 6

\* The i-th header name: h, hh, hhh, ...
HeaderName(i) == [j \in 1..i |-> "h"]

\* The mappings whose keys are the header names from..to, with these values
HeaderMaps(from, to, values) ==
    { [k \in {HeaderName(i) : i \in from..to} |-> f[Len(k)]] :
        f \in [from..to -> values] }

\* Stored headers: the first k names, each with the value x
StoredHeaderMaps ==
    UNION { HeaderMaps(1, k, {<<"x">>}) : k \in 0..MaxHeaderNames }

\* New headers: any run of names with the value x or y, so that they overlap
\* the stored names, extend them, drop some or share none, and change any of
\* the values
NewHeaderMaps ==
    UNION { HeaderMaps(from, to, {<<"x">>, <<"y">>}) :
              from \in 1..MaxHeaderNames, to \in 0..MaxHeaderNames }

StoredCookieMaps == { EmptyMap, (<<"s">> :> <<"x">>) }

NewCookieMaps == { EmptyMap, (<<"s">> :> <<"x">>), (<<"s">> :> <<"y">>),
                   (<<"t">> :> <<"x">>) }

ProbeStoredData ==
    {<<>>} \cup { <<[cookies |-> c, headers |-> h, timestamp |-> 0]>> :
                    c \in StoredCookieMaps, h \in StoredHeaderMaps }

ProbeNewData ==
    { [cookies |-> c, headers |-> h] : c \in NewCookieMaps, h \in NewHeaderMaps }

ProbeArgs(storedData, newData) ==
    [op |-> "detect", phase |-> "args", storedData |-> storedData, newData |-> newData,
     changeResult |-> <<>>, mergedData |-> <<>>]

InitDetect ==
    /\ InitCommon
    /\ env = [faults |-> FALSE, inFlight |-> 1, requests |-> {}, jars |-> {},
              budget |-> 0,
              configFaults |-> FALSE,
              cookieStores |-> {<< >>}, uploadFaults |-> FALSE, manualSyncs |-> 0,
              horizon |-> MaxTime, configChanges |-> 0, cookieChanges |-> 0]
    /\ \E storedData \in ProbeStoredData, newData \in ProbeNewData :
          probe = ProbeArgs(storedData, newData)

SystemVars == <<env, config, store, handlers, requests, now, timers, syncDebounceTimer,
                syncTriggerCallback, syncs, channel, last, observed, lastSync, syncLog,
                worker>>

\* compareAndDetectChanges(newData, storedData) is called
Detect ==
    /\ probe.op = "detect"
    /\ probe.phase = "args"
    /\ probe' = [probe EXCEPT
                    !.phase = "detected",
                    !.changeResult =
                        <<compareAndDetectChanges(probe.newData, probe.storedData)>>]
    /\ UNCHANGED SystemVars

\* mergeRequestData(storedData, newData) is called
Merge ==
    /\ probe.op = "detect"
    /\ probe.phase = "args"
    /\ probe' = [probe EXCEPT
                    !.phase = "merged",
                    !.mergedData = <<mergeRequestData(probe.storedData, probe.newData)>>]
    /\ UNCHANGED SystemVars

DetectNext == Detect \/ Merge

\* The detector and the merge on arguments of every shape
SpecDetect == InitDetect /\ [][DetectNext]_vars

----------------------------------------------------------------------------
(* updateStoredData applied alone, twice in a row *)

StoredRecord(cookies, headers) == [cookies |-> cookies, headers |-> headers, timestamp |-> 0]

\* The stored state before the commits: empty, or with a record of a.c, of
\* d.c or of both
CommitStates ==
    LET ofPaths == { D_PATHS :> StoredRecord(c, (<<"a">> :> <<"x">>)) : c \in StoredCookieMaps }
        ofOther == { D_OTHER :> StoredRecord(EmptyMap, (<<"b">> :> <<"x">>)) }
    IN {EmptyMap} \cup ofPaths \cup ofOther \cup { p @@ o : p \in ofPaths, o \in ofOther }

\* The merged data that is committed
CommitData ==
    { [cookies |-> c, headers |-> h] :
        c \in StoredCookieMaps,
        h \in { EmptyMap, (<<"a">> :> <<"x">>), (<<"a">> :> <<"y">>) } }

\* Date.now() at the first commit; the second is at the same time or later
CommitTimes == {0, TickMs}

CommitArgs(state, domain, data, first, second) ==
    [op |-> "commit", phase |-> "args", state |-> state, domain |-> domain, data |-> data,
     first |-> first, second |-> second, once |-> <<>>, twice |-> <<>>]

InitCommit ==
    /\ InitCommon
    /\ env = [faults |-> FALSE, inFlight |-> 1, requests |-> {}, jars |-> {},
              budget |-> 0,
              configFaults |-> FALSE,
              cookieStores |-> {<< >>}, uploadFaults |-> FALSE, manualSyncs |-> 0,
              horizon |-> MaxTime, configChanges |-> 0, cookieChanges |-> 0]
    /\ \E state \in CommitStates, domain \in {D_PATHS, D_OTHER}, data \in CommitData,
          first \in CommitTimes, later \in CommitTimes :
          probe = CommitArgs(state, domain, data, first, first + later)

\* updateStoredData(domain, data) runs to its end
CommitOnce ==
    /\ probe.op = "commit"
    /\ probe.phase = "args"
    /\ probe' = [probe EXCEPT
                    !.phase = "once",
                    !.once = <<updateStoredData(probe.state, probe.domain, probe.data,
                                                probe.first)>>]
    /\ UNCHANGED SystemVars

\* updateStoredData(domain, data) runs again, on what the first run stored
CommitTwice ==
    /\ probe.op = "commit"
    /\ probe.phase = "once"
    /\ probe' = [probe EXCEPT
                    !.phase = "twice",
                    !.twice = <<updateStoredData(probe.once[1], probe.domain, probe.data,
                                                 probe.second)>>]
    /\ UNCHANGED SystemVars

CommitNext == CommitOnce \/ CommitTwice

\* Two commits of the same data in a row
SpecCommit == InitCommit /\ [][CommitNext]_vars

----------------------------------------------------------------------------
(* mergeRequestData applied in sequence and to batches *)

\* The data of a request or of a batch of requests: no cookie or the cookie
\* s, no header, the header a or the header b, with the values x and y
SeriesData ==
    { [cookies |-> c, headers |-> h] :
        c \in { EmptyMap, (<<"s">> :> <<"x">>), (<<"s">> :> <<"y">>) },
        h \in { EmptyMap, (<<"a">> :> <<"x">>), (<<"a">> :> <<"y">>),
                (<<"b">> :> <<"y">>) } }

\* The stored snapshot the series starts from: none, or a record
SeriesBase ==
    {<<>>} \cup { <<[cookies |-> d.cookies, headers |-> d.headers, timestamp |-> 0]>> :
                    d \in SeriesData }

SeriesArgs(base, first, second) ==
    [op |-> "series", phase |-> "args", base |-> base, first |-> first, second |-> second,
     once |-> <<>>, repeated |-> <<>>, inOrder |-> <<>>, swapped |-> <<>>,
     batchSecondWins |-> <<>>, batchFirstWins |-> <<>>]

InitSeries ==
    /\ InitCommon
    /\ env = [faults |-> FALSE, inFlight |-> 1, requests |-> {}, jars |-> {},
              budget |-> 0,
              configFaults |-> FALSE,
              cookieStores |-> {<< >>}, uploadFaults |-> FALSE, manualSyncs |-> 0,
              horizon |-> MaxTime, configChanges |-> 0, cookieChanges |-> 0]
    /\ \E base \in SeriesBase, first \in SeriesData, second \in SeriesData :
          probe = SeriesArgs(base, first, second)

\* mergeRequestData is called for one request after the other: first once
\* and twice, first then second, and second then first
MergeInSequence ==
    /\ probe.op = "series"
    /\ probe.phase \in {"args", "batched"}
    /\ LET once == mergeRequestData(probe.base, probe.first)
           other == mergeRequestData(probe.base, probe.second)
       IN probe' = [probe EXCEPT
                       !.phase = IF probe.phase = "args" THEN "sequenced" ELSE "done",
                       !.once = <<once>>,
                       !.repeated = <<mergeRequestData(<<once>>, probe.first)>>,
                       !.inOrder = <<mergeRequestData(<<once>>, probe.second)>>,
                       !.swapped = <<mergeRequestData(<<other>>, probe.first)>>]
    /\ UNCHANGED SystemVars

\* mergeRequestData is called with the two requests as one batch, which is
\* itself their merge: the second over the first, and the first over the second
MergeAsBatch ==
    /\ probe.op = "series"
    /\ probe.phase \in {"args", "sequenced"}
    /\ probe' = [probe EXCEPT
                    !.phase = IF probe.phase = "args" THEN "batched" ELSE "done",
                    !.batchSecondWins =
                        <<mergeRequestData(probe.base,
                                           mergeRequestData(<<probe.first>>, probe.second))>>,
                    !.batchFirstWins =
                        <<mergeRequestData(probe.base,
                                           mergeRequestData(<<probe.second>>, probe.first))>>]
    /\ UNCHANGED SystemVars

SeriesNext == MergeInSequence \/ MergeAsBatch

\* Merges in sequence and in batches
SpecSeries == InitSeries /\ [][SeriesNext]_vars

----------------------------------------------------------------------------
(* matchesDomain applied alone *)

\* Host names, as URL hostnames and validated configured domains are: a
\* domain, subdomains of it one and two labels deep, names that end with the
\* same letters without being subdomains, another domain, single labels, and
\* a configured domain in upper case
HostNames ==
    { <<"a", ".", "c">>, <<"w", ".", "a", ".", "c">>,
      <<"v", ".", "w", ".", "a", ".", "c">>, <<"x", "a", ".", "c">>,
      <<"w", ".", "x", "a", ".", "c">>, <<"b", ".", "c">>, <<"a", ".", "b", ".", "c">>,
      <<"c">>, <<"a">>, <<"A", ".", "c">> }

MatchArgs(requestDomain, configDomain) ==
    [op |-> "match", phase |-> "args", requestDomain |-> requestDomain,
     configDomain |-> configDomain, result |-> <<>>, reverse |-> <<>>]

InitMatch ==
    /\ InitCommon
    /\ env = [faults |-> FALSE, inFlight |-> 1, requests |-> {}, jars |-> {},
              budget |-> 0,
              configFaults |-> FALSE,
              cookieStores |-> {<< >>}, uploadFaults |-> FALSE, manualSyncs |-> 0,
              horizon |-> MaxTime, configChanges |-> 0, cookieChanges |-> 0]
    /\ \E requestDomain \in HostNames, configDomain \in HostNames :
          probe = MatchArgs(requestDomain, configDomain)

\* matchesDomain is called, and called with its arguments exchanged
MatchDomain ==
    /\ probe.op = "match"
    /\ probe.phase = "args"
    /\ probe' = [probe EXCEPT
                    !.phase = "matched",
                    !.result = <<matchesDomain(probe.requestDomain, probe.configDomain)>>,
                    !.reverse = <<matchesDomain(probe.configDomain, probe.requestDomain)>>]
    /\ UNCHANGED SystemVars

\* matchesDomain on pairs of host names
SpecMatch == InitMatch /\ [][MatchDomain]_vars

----------------------------------------------------------------------------
(* The handler's merge, verdict and commit over a series of requests *)

\* Requests in a series
MaxSeries == 4

\* The data of the requests of one domain: every header name with the value
\* x, or one of the first three names alone with the value y or x
DriftData ==
    { [cookies |-> EmptyMap, headers |-> h] :
        h \in HeaderMaps(1, MaxHeaderNames, {<<"x">>})
              \cup { HeaderName(i) :> v : i \in 1..3, v \in {<<"y">>} }
              \cup { HeaderName(1) :> <<"x">> } }

\* The series so far: the stored record, the verdict of the last request,
\* and the headers that were stored with the last verdict that asked for a sync
Series(count, storedData, changeResult, syncedHeaders) ==
    [op |-> "drift", count |-> count, storedData |-> storedData,
     changeResult |-> changeResult, syncedHeaders |-> syncedHeaders]

InitDrift ==
    /\ InitCommon
    /\ env = [faults |-> FALSE, inFlight |-> 1, requests |-> {}, jars |-> {},
              budget |-> 0, configFaults |-> FALSE,
              cookieStores |-> {<< >>}, uploadFaults |-> FALSE, manualSyncs |-> 0,
              horizon |-> MaxTime, configChanges |-> 0, cookieChanges |-> 0]
    /\ probe = Series(0, <<>>, <<>>, <<>>)

\* A handler runs from the read of the stored record to its commit, alone:
\* it merges the request data into the record, judges the merge against the
\* record and stores the merge
Observe ==
    /\ probe.op = "drift"
    /\ probe.count < MaxSeries
    /\ \E requestData \in DriftData :
          LET mergedData == mergeRequestData(probe.storedData, requestData)
              changeResult == compareAndDetectChanges(mergedData, probe.storedData)
              state == updateStoredData(EmptyMap, D_PATHS, mergedData, now)
          IN probe' = Series(probe.count + 1,
                             getStoredDataForDomain(state, D_PATHS, TRUE),
                             <<changeResult>>,
                             IF changeResult.shouldSync THEN <<mergedData.headers>>
                             ELSE probe.syncedHeaders)
    /\ UNCHANGED SystemVars

\* Sequential requests of one domain
SpecDrift == InitDrift /\ [][Observe]_vars

----------------------------------------------------------------------------
(* matchesDomain applied to names with leading dots *)

\* Names with and without a leading dot: a domain, a subdomain of it, a name
\* that ends with the same letters, another domain
DottedNames ==
    LET names == { <<"a", ".", "c">>, <<"w", ".", "a", ".", "c">>,
                   <<"x", "a", ".", "c">>, <<"b", ".", "c">> }
    IN names \cup { <<".">> \o name : name \in names }

StripArgs(requestDomain, configDomain) ==
    [op |-> "strip", phase |-> "args", requestDomain |-> requestDomain,
     configDomain |-> configDomain, result |-> <<>>, stripped |-> <<>>]

InitStrip ==
    /\ InitCommon
    /\ env = [faults |-> FALSE, inFlight |-> 1, requests |-> {}, jars |-> {},
              budget |-> 0, configFaults |-> FALSE,
              cookieStores |-> {<< >>}, uploadFaults |-> FALSE, manualSyncs |-> 0,
              horizon |-> MaxTime, configChanges |-> 0, cookieChanges |-> 0]
    /\ \E requestDomain \in DottedNames, configDomain \in DottedNames :
          probe = StripArgs(requestDomain, configDomain)

\* matchesDomain is called with the names, and with the names without their
\* leading dots
MatchStripped ==
    /\ probe.op = "strip"
    /\ probe.phase = "args"
    /\ probe' = [probe EXCEPT
                    !.phase = "matched",
                    !.result = <<matchesDomain(probe.requestDomain, probe.configDomain)>>,
                    !.stripped = <<matchesDomain(StripLeadingDot(probe.requestDomain),
                                                 StripLeadingDot(probe.configDomain))>>]
    /\ UNCHANGED SystemVars

\* matchesDomain on pairs of names with leading dots
SpecStrip == InitStrip /\ [][MatchStripped]_vars

----------------------------------------------------------------------------
(* matchesApiPath applied alone *)

\* Characters of a URL path
MaxPathLen == 3

\* Characters of a configured pattern
MaxPatternLen == 3

\* Strings of at most n of the characters
StringsUpTo(chars, n) == UNION { [1..k -> chars] : k \in 0..n }

\* URL.pathname values (it holds no line terminator), and '' which
\* extractPath returns for a URL that does not parse
ShortUrlPaths == StringsUpTo({"/", "a", "."}, MaxPathLen)

\* Configured patterns: literals, the dot, and wildcards at any place
ShortPatterns == StringsUpTo({"/", "a", ".", "*"}, MaxPatternLen)

API_V3_STAR == <<"/", "a", "p", "i", "/", "v", "3", "/", "*">>
API_V3_ACCOUNT == <<"/", "a", "p", "i", "/", "v", "3", "/", "a", "c", "c", "o", "u", "n", "t">>
API_V3 == <<"/", "a", "p", "i", "/", "v", "3", "/">>
API_V2_ACCOUNT == <<"/", "a", "p", "i", "/", "v", "2", "/", "a", "c", "c", "o", "u", "n", "t">>

\* apiPaths: no pattern, one pattern, or a pattern after the pattern /a
ApiPathLists ==
    { << >> } \cup { <<p>> : p \in ShortPatterns }
    \cup { << <<"/", "a">>, p >> : p \in ShortPatterns }

PathArgs(urlPath, apiPaths) ==
    [op |-> "path", phase |-> "args", urlPath |-> urlPath, apiPaths |-> apiPaths,
     result |-> <<>>]

InitPath ==
    /\ InitCommon
    /\ env = [faults |-> FALSE, inFlight |-> 1, requests |-> {}, jars |-> {},
              budget |-> 0,
              configFaults |-> FALSE,
              cookieStores |-> {<< >>}, uploadFaults |-> FALSE, manualSyncs |-> 0,
              horizon |-> MaxTime, configChanges |-> 0, cookieChanges |-> 0]
    /\ \/ \E urlPath \in ShortUrlPaths, apiPaths \in ApiPathLists :
             probe = PathArgs(urlPath, apiPaths)
       \/ \E urlPath \in {API_V3_ACCOUNT, API_V3, API_V2_ACCOUNT},
             apiPaths \in { <<API_V3_STAR>>, <<API_V3>>, <<API_V2_ACCOUNT, API_V3_STAR>> } :
             probe = PathArgs(urlPath, apiPaths)

\* matchesApiPath(urlPath, apiPaths) is called
MatchPath ==
    /\ probe.op = "path"
    /\ probe.phase = "args"
    /\ probe' = [probe EXCEPT
                    !.phase = "matched",
                    !.result = <<matchesApiPath(probe.urlPath, probe.apiPaths)>>]
    /\ UNCHANGED SystemVars

\* matchesApiPath on paths and pattern lists
SpecPath == InitPath /\ [][MatchPath]_vars

----------------------------------------------------------------------------
(* Specifications *)

\* The request handlers
HandlerNext ==
    \/ \E h \in HandlerIds : Start(h)
    \/ \E h \in HandlerIds : ConfigRead(h)
    \/ \E h \in HandlerIds : CookieLookup(h)
    \/ \E h \in HandlerIds : StoreRead(h)
    \/ \E h \in HandlerIds : UpdateGet(h)
    \/ \E h \in HandlerIds : UpdateSet(h)

\* Time, the timer and the trigger callback
TimerNext ==
    \/ Tick
    \/ TimerFires
    \/ \E i \in 1..MaxRequests : CallbackConfig(i)
    \/ \E i \in 1..MaxRequests : SyncReadsState(i)
    \/ \E i \in 1..MaxRequests : SyncReturns(i)

Next == HandlerNext \/ TimerNext

\* The whole system
Spec == Init /\ [][Next]_vars

\* The whole system with failing storage calls
SpecTrigger == InitTrigger /\ [][Next]_vars

\* The request handlers within one instant of the clock
SpecHandlers == InitHandlers /\ [][HandlerNext]_vars

\* Overlapping request handlers, within one instant of the clock
SpecRace == InitRace /\ [][HandlerNext]_vars

\* The request handlers one at a time, within one instant of the clock
SpecSeq == InitSeq /\ [][HandlerNext]_vars

\* Overlapping request handlers of two monitored domains
SpecCross == InitCross /\ [][HandlerNext]_vars

\* The screening of requests by the request handlers
SpecScreen == InitScreen /\ [][HandlerNext]_vars

\* The request handlers on requests with Cookie headers
SpecCookie == InitCookie /\ [][HandlerNext]_vars

\* The request handlers on requests whose cookies come from the header or
\* from the cookie lookup
SpecLookup == InitLookup /\ [][HandlerNext]_vars

\* The request handlers one at a time on requests to several hosts
SpecKeyed == InitKeyed /\ [][HandlerNext]_vars

\* The request handlers one at a time under overlapping configuration entries
SpecOrdered == InitOrdered /\ [][HandlerNext]_vars

\* The service worker with the pages that write the configuration, the
\* cookie store and the clock
\* Overlapping handlers of two requests, with writes of the configuration
InitMonitoring ==
    /\ InitCommon
    /\ probe = NoProbe
    /\ env = [faults |-> FALSE, inFlight |-> 2, requests |-> CoreRequests, jars |-> {EmptyMap},
              budget |-> MaxRequests - 1, configFaults |-> FALSE,
              cookieStores |-> {<< >>}, uploadFaults |-> FALSE, manualSyncs |-> 0,
              horizon |-> MaxTime,
              configChanges |-> MaxConfigChanges, cookieChanges |-> 0]

\* The request handlers, the pages that write the configuration and the
\* calls of setupAutoSync that follow
MonitoringNext ==
    \/ HandlerNext
    \/ ToggleAutoSync
    \/ SaveConfiguration
    \/ SetupAutoSyncConfig
    \/ SetupAutoSyncServices

\* The request monitoring across changes of the configuration
SpecMonitoring == InitMonitoring /\ [][MonitoringNext]_vars

AutoSyncNext ==
    \/ WorkerNext
    \/ Tick
    \/ \E i \in 1..MaxCookieChanges : SyncReadsState(i)
    \/ \E i \in 1..MaxCookieChanges : SyncReturns(i)

SpecWorker == InitWorker /\ [][AutoSyncNext]_vars

\* The steps of the handler h after its dispatch
HandlerStep(h) ==
    ConfigRead(h) \/ CookieLookup(h) \/ StoreRead(h) \/ UpdateGet(h) \/ UpdateSet(h)

\* The request handlers one at a time with failing collaborators; every
\* await of a handler settles, so a handler that can step does
SpecFaults ==
    /\ InitFaults
    /\ [][HandlerNext]_vars
    /\ \A h \in HandlerIds : WF_vars(HandlerStep(h))

----------------------------------------------------------------------------
(* clearStoredApiData between the requests *)

\* A delete that empties the whole state
ClearedState_Emptied(state, domain) == EmptyMap

\* delete state[domain]
ClearedState(state, domain) == Without(state, domain)

\* An invocation of clearStoredApiData: its argument (<<>> for none), where
\* it is, and the state object it read
Clearing(phase, domain, state) ==
    [op |-> "clear", phase |-> phase, domain |-> domain, state |-> state]

ClearRuns == probe.op = "clear" /\ probe.phase # "done"

\* One handler at a time on requests to two monitored domains, and calls of
\* clearStoredApiData between them
InitClear ==
    /\ InitCommon
    /\ probe = NoProbe
    /\ env = [faults |-> FALSE, inFlight |-> 1, requests |-> CrossRequests,
              jars |-> {EmptyMap}, budget |-> MaxRequests, configFaults |-> FALSE,
              cookieStores |-> {<< >>}, uploadFaults |-> FALSE, manualSyncs |-> 0,
              horizon |-> MaxTime, configChanges |-> 0, cookieChanges |-> 0]

\* clearStoredApiData(domain) or clearStoredApiData() is called while no
\* handler and no other clear runs: it awaits its read, or its remove
ClearStart ==
    /\ InFlight = {}
    /\ ~ClearRuns
    /\ \E domain \in {<<>>} \cup {<<targetDomains.domain>> : targetDomains \in
                                    {config.targetDomains[i] : i \in DOMAIN config.targetDomains}} :
          probe' = Clearing(IF domain = <<>> THEN "remove" ELSE "get", domain, <<>>)
    /\ UNCHANGED SystemVars

\* The read of clearStoredApiData(domain) resolved: it deletes state[domain]
\* from the object it read and awaits the write; a failed read is logged
ClearGet ==
    /\ probe.op = "clear"
    /\ probe.phase = "get"
    /\ \E ok \in StorageOutcomes :
          probe' = IF ok
                   THEN Clearing("set", probe.domain, <<ClearedState(store, probe.domain[1])>>)
                   ELSE Clearing("done", probe.domain, <<>>)
    /\ UNCHANGED SystemVars

\* The write of clearStoredApiData(domain) resolved, or failed and was logged
ClearSet ==
    /\ probe.op = "clear"
    /\ probe.phase = "set"
    /\ \E ok \in StorageOutcomes :
          store' = IF ok THEN probe.state[1] ELSE store
    /\ probe' = Clearing("done", probe.domain, <<>>)
    /\ UNCHANGED <<env, config, handlers, requests, now, timers, syncDebounceTimer,
                   syncTriggerCallback, syncs, channel, last, observed, lastSync, syncLog,
                   worker>>

\* chrome.storage.local.remove of clearStoredApiData() resolved, or failed
ClearRemove ==
    /\ probe.op = "clear"
    /\ probe.phase = "remove"
    /\ \E ok \in StorageOutcomes :
          store' = IF ok THEN EmptyMap ELSE store
    /\ probe' = Clearing("done", probe.domain, <<>>)
    /\ UNCHANGED <<env, config, handlers, requests, now, timers, syncDebounceTimer,
                   syncTriggerCallback, syncs, channel, last, observed, lastSync, syncLog,
                   worker>>

\* The request handlers, which do not start while a clear runs, and the clears
ClearNext ==
    \/ ~ClearRuns /\ HandlerNext
    \/ ClearStart
    \/ ClearGet
    \/ ClearSet
    \/ ClearRemove

SpecClear == InitClear /\ [][ClearNext]_vars

----------------------------------------------------------------------------
(* Properties *)

\* The handlers that hold a verdict: they read the stored data, merged and judged
Judged == {h \in HandlerIds : handlers[h].pc \in {"updateGet", "updateSet"}}

Detected == probe.op = "detect" /\ probe.phase = "detected"

Merged == probe.op = "detect" /\ probe.phase = "merged"

\* C1: a matching request that finds no stored snapshot for its domain gets the
\* verdict shouldSync = true with headerChangePercentage = 100, whatever
\* cookies and headers it carries.
C1_FirstObservationSyncs ==
    \A h \in Judged :
        handlers[h].storedData = <<>> =>
            /\ handlers[h].changeResult[1].shouldSync
            /\ handlers[h].changeResult[1].headerChangePercentage = FULL_PERCENTAGE

\* A first request without cookies and without headers was judged
C1_Witness ==
    \E h \in Judged :
        /\ handlers[h].storedData = <<>>
        /\ handlers[h].configuredDomain[1] \notin DOMAIN store
        /\ handlers[h].requestData[1].cookies = EmptyMap
        /\ handlers[h].requestData[1].headers = EmptyMap
        /\ handlers[h].changeResult[1].shouldSync

\* C2: with a stored snapshot, new cookies that differ from the stored cookies
\* give shouldSync = true, and headerChangePercentage 100 when the headers
\* differ too and 0 when they do not.
C2_CookieChangeDominates ==
    (Detected /\ probe.storedData # <<>>
        /\ probe.newData.cookies # probe.storedData[1].cookies) =>
        /\ probe.changeResult[1].shouldSync
        /\ probe.changeResult[1].headerChangePercentage =
              IF probe.newData.headers # probe.storedData[1].headers
              THEN FULL_PERCENTAGE ELSE 0

\* A cookie value changed while the headers, which are not empty, stayed the same
C2_Witness ==
    /\ Detected
    /\ probe.storedData # <<>>
    /\ Keys(probe.storedData[1].cookies) = Keys(probe.newData.cookies)
    /\ probe.newData.cookies # probe.storedData[1].cookies
    /\ probe.newData.headers = probe.storedData[1].headers
    /\ probe.newData.headers # EmptyMap
    /\ probe.changeResult[1].shouldSync
    /\ probe.changeResult[1].headerChangePercentage = 0

CommonNames(a, b) == Keys(a) \cap Keys(b)

ChangedNames(a, b) == {k \in CommonNames(a, b) : a[k] # b[k]}

C4_HeaderChangeSignals ==
    (last.outcome = "committed" /\ last.changeResult[1].headersChanged) => last.triggered

\* The bursts of the trigger channel: at most one invocation of the callback
\* per burst, exactly one once nothing is scheduled any more, and that one a
\* debounce window after the last call of the burst
C5_OnePerBurst ==
    /\ channel.fired <= 1
    /\ (channel.calls >= 1 /\ timers = {}) => channel.fired = 1
    /\ channel.fired = 1 => channel.lastFireAt = channel.lastCallAt + SYNC_DEBOUNCE_MS

\* The sync that the callback starts reads the stored state as it is when it reads
C5_ReadsStoreThen ==
    \A i \in DOMAIN syncs :
        (syncs[i].pc = "performSync" /\ i \in DOMAIN syncs' /\ syncs'[i].pc = "upload")
            => syncs'[i].data = <<store>>

C6_OneScheduled ==
    /\ Cardinality(timers) <= 1
    /\ \A deadline \in timers :
          /\ syncDebounceTimer = <<deadline>>
          /\ deadline = channel.lastCallAt + SYNC_DEBOUNCE_MS

\* A later call replaced the invocation an earlier call had scheduled
C6_Witness ==
    /\ channel.calls >= 2
    /\ timers = {channel.lastCallAt + SYNC_DEBOUNCE_MS}
    /\ channel.lastCallAt > 0

\* C7: when the write of a handler succeeds, the stored record of its domain
\* holds the merge of the snapshot it read and its request's data, whatever
\* the verdict was.
C7_CommitsWhateverVerdict ==
    [][\A h \in HandlerIds :
          (handlers[h].pc = "updateSet" /\ handlers'[h].pc = "idle"
              /\ last'.outcome = "committed") =>
            LET domain == handlers[h].configuredDomain[1]
                merged == mergeRequestData(handlers[h].storedData,
                                           handlers[h].requestData[1])
            IN /\ domain \in DOMAIN store'
               /\ store'[domain].cookies = merged.cookies
               /\ store'[domain].headers = merged.headers]_vars

\* A request whose verdict was shouldSync = false was committed
C7_Witness ==
    /\ last.outcome = "committed"
    /\ ~last.changeResult[1].shouldSync
    /\ ~last.triggered
    /\ D_PATHS \in DOMAIN store

\* The merge of one kind of mapping: the union of the keys, new values first
IsMergeOf(merged, old, new) ==
    /\ Keys(merged) = Keys(old) \cup Keys(new)
    /\ \A k \in Keys(new) : merged[k] = new[k]
    /\ \A k \in Keys(old) \ Keys(new) : merged[k] = old[k]

\* C8: mergeRequestData gives, for cookies and for headers, the union of the
\* keys with the new value for a key of new and the old value for a key of old
\* only; without old data the result is the new data.
C8_MergeIsUnion ==
    Merged =>
        IF probe.storedData = <<>>
        THEN /\ probe.mergedData[1].cookies = probe.newData.cookies
             /\ probe.mergedData[1].headers = probe.newData.headers
        ELSE /\ IsMergeOf(probe.mergedData[1].cookies, probe.storedData[1].cookies,
                          probe.newData.cookies)
             /\ IsMergeOf(probe.mergedData[1].headers, probe.storedData[1].headers,
                          probe.newData.headers)

\* A merge with a header only in old, one only in new and one in both with
\* different values
C8_Witness ==
    /\ Merged
    /\ probe.storedData # <<>>
    /\ LET old == probe.storedData[1].headers
           new == probe.newData.headers
       IN /\ Keys(old) \ Keys(new) # {}
          /\ Keys(new) \ Keys(old) # {}
          /\ ChangedNames(new, old) # {}
          /\ Keys(probe.mergedData[1].headers) = Keys(old) \cup Keys(new)

\* C9: with one handler at a time and no storage failure, no step removes a
\* domain, a cookie name or a header name from the stored snapshots.
C9_NeverRemoved ==
    [][\A domain \in DOMAIN store :
          /\ domain \in DOMAIN store'
          /\ Keys(store[domain].cookies) \subseteq Keys(store'[domain].cookies)
          /\ Keys(store[domain].headers) \subseteq Keys(store'[domain].headers)]_vars

\* The snapshot holds the headers a and b, which no single request carries, and
\* a cookie, after a request that carried neither a cookie nor a header
C9_Witness ==
    /\ last.outcome = "committed"
    /\ D_PATHS \in DOMAIN store
    /\ Keys(store[D_PATHS].headers) = {<<"a">>, <<"b">>}
    /\ Keys(store[D_PATHS].cookies) # {}
    /\ ~last.changeResult[1].headersChanged
    /\ ~last.changeResult[1].cookiesChanged

\* C10: once the overlapping handlers have committed, the stored snapshot of
\* their domain holds every cookie name and header name that a committed
\* request carried.
C10_NoLostUpdate ==
    InFlight = {} =>
        \A o \in observed :
            /\ o[1] \in DOMAIN store
            /\ o[3] \in Keys(store[o[1]][o[2]])

\* C11: the commit of a handler leaves the stored snapshot of every domain
\* other than its own as it was: neither removed nor changed.
C11_OtherDomainsUntouched ==
    [][\A h \in HandlerIds :
          (handlers[h].pc = "updateSet" /\ handlers'[h].pc = "idle") =>
            \A domain \in DOMAIN store \ {handlers[h].configuredDomain[1]} :
                /\ domain \in DOMAIN store'
                /\ store'[domain] = store[domain]]_vars

\* The handler h, waiting for the configuration, returned in this step and
\* left the store, the timer and the trigger channel as they were
ReturnedWithoutEffect(h) ==
    /\ handlers'[h] = IdleHandler
    /\ store' = store
    /\ timers' = timers
    /\ syncDebounceTimer' = syncDebounceTimer
    /\ channel' = channel
    /\ last'.changeResult = <<>>
    /\ ~last'.triggered

\* The first configured entry whose domain matches the host has no path patterns
IsWholeDomainHost(hostname) ==
    /\ \E i \in 1..Len(config.targetDomains) :
          matchesDomain(hostname, config.targetDomains[i].domain)
    /\ LET first == CHOOSE i \in 1..Len(config.targetDomains) :
                      /\ matchesDomain(hostname, config.targetDomains[i].domain)
                      /\ \A j \in 1..(i - 1) :
                            ~matchesDomain(hostname, config.targetDomains[j].domain)
       IN config.targetDomains[first].apiPaths = << >>

C12_NoWholeDomainSnapshot ==
    /\ D_WHOLE \notin DOMAIN store
    /\ \A h \in HandlerIds : handlers[h].configuredDomain # <<D_WHOLE>>

C12_WholeDomainStep ==
    \A h \in HandlerIds :
        (/\ handlers[h].pc = "getConfig"
         /\ IsWholeDomainHost(handlers[h].request[1].hostname)
         /\ handlers'[h] # handlers[h]) =>
            /\ ReturnedWithoutEffect(h)
            /\ last'.outcome = "noApiPaths"

\* C12: a request to a host of a configured domain without path patterns
\* makes the handler return with the store, the debounce timer and the
\* trigger untouched; no snapshot of such a domain is ever stored and no
\* handler ever extracts data for it.
C12_WholeDomainIgnored == []C12_NoWholeDomainSnapshot /\ [][C12_WholeDomainStep]_vars

\* A whole-domain request was dropped while a snapshot was stored and a
\* callback was scheduled
C12_Witness ==
    /\ last.outcome = "noApiPaths"
    /\ D_PATHS \in DOMAIN store
    /\ timers # {}
    /\ InFlight = {}

\* No configured domain matches the host
MatchesNoDomain(hostname) ==
    \A i \in 1..Len(config.targetDomains) :
        ~matchesDomain(hostname, config.targetDomains[i].domain)

\* The host is one of a.c, whose patterns (one, /v/*) the path does not match:
\* it does not begin with /v/
OffThePatterns(details) ==
    /\ details.hostname \in {D_PATHS, <<"w", ".", "a", ".", "c">>}
    /\ \/ Len(details.pathname) < 3
       \/ SubSeq(details.pathname, 1, 3) # <<"/", "v", "/">>

\* C13: a request whose host matches no configured domain, or whose path
\* matches no pattern of the matched domain, makes the handler return
\* normally with every snapshot, the debounce timer and the trigger untouched.
C13_UnmatchedIgnored ==
    [][\A h \in HandlerIds :
          (/\ handlers[h].pc = "getConfig"
           /\ \/ MatchesNoDomain(handlers[h].request[1].hostname)
              \/ OffThePatterns(handlers[h].request[1])
           /\ handlers'[h] # handlers[h]) =>
              /\ ReturnedWithoutEffect(h)
              /\ last'.outcome \in {"noDomain", "domainNotMatched", "pathNotMatched"}]_vars

\* The last of the requests was off the patterns and was dropped, while a
\* snapshot was stored and a callback was scheduled
C13_Witness ==
    /\ last.outcome = "pathNotMatched"
    /\ requests = MaxRequests
    /\ D_PATHS \in DOMAIN store
    /\ timers # {}
    /\ InFlight = {}

UpperCaseLetters == {"A", "B", "C", "E", "I", "K", "O"}

\* A headers mapping without the key 'cookie' and without an upper-case
\* letter in a key
IsStoredHeaders(headers) ==
    /\ <<"c", "o", "o", "k", "i", "e">> \notin Keys(headers)
    /\ \A name \in Keys(headers) : \A i \in 1..Len(name) : name[i] \notin UpperCaseLetters

\* C14: no stored snapshot's headers hold the key 'cookie' or a key with an
\* upper-case letter, and neither do the headers a handler extracted or
\* merged, whatever the letter case of the request's Cookie header name.
C14_NoCookieHeaderStored ==
    /\ \A domain \in DOMAIN store : IsStoredHeaders(store[domain].headers)
    /\ \A h \in HandlerIds :
          /\ handlers[h].requestData # <<>> => IsStoredHeaders(handlers[h].requestData[1].headers)
          /\ handlers[h].mergedData # <<>> => IsStoredHeaders(handlers[h].mergedData[1].headers)

\* The snapshot holds the cookie t and the header a: y, which only the
\* request with the header names COOKIE and A carries, next to a cookie s
C14_Witness ==
    /\ D_PATHS \in DOMAIN store
    /\ {<<"s">>, <<"t">>} \subseteq Keys(store[D_PATHS].cookies)
    /\ store[D_PATHS].cookies[<<"t">>] = <<"y">>
    /\ <<"a">> \in Keys(store[D_PATHS].headers)
    /\ store[D_PATHS].headers[<<"a">>] = <<"y">>

\* Every handler that was dispatched returns
C15_EveryHandlerReturns ==
    \A h \in HandlerIds : (handlers[h].pc # "idle") ~> (handlers[h].pc = "idle")

\* What a step of the handler h leads to, whether its collaborator failed or
\* not and however earlier handlers ended: from the cookie lookup to the
\* stored snapshot; from the stored snapshot to the commit, with the merge and
\* the verdict computed from what was read; from the commit to the return,
\* with the trigger signalled as the verdict says
C15_Pipeline ==
    \A h \in HandlerIds :
        handlers'[h] # handlers[h] =>
            /\ handlers[h].pc = "getCookies" =>
                  handlers'[h].pc = "getStored" /\ handlers'[h].requestData # <<>>
            /\ handlers[h].pc = "getStored" =>
                  /\ handlers'[h].pc = "updateGet"
                  /\ handlers'[h].mergedData # <<>>
                  /\ handlers'[h].changeResult # <<>>
            /\ handlers[h].pc = "updateGet" =>
                  \/ handlers'[h].pc = "updateSet" /\ handlers'[h].state # <<>>
                  \/ /\ handlers'[h] = IdleHandler
                     /\ last'.outcome = "commitFailed"
                     /\ last'.triggered = handlers[h].changeResult[1].shouldSync
            /\ handlers[h].pc = "updateSet" =>
                  /\ handlers'[h] = IdleHandler
                  /\ last'.outcome \in {"committed", "commitFailed"}
                  /\ last'.triggered = handlers[h].changeResult[1].shouldSync

\* C15: with every collaborator allowed to fail, each dispatched handler
\* returns, each step of a handler leads to the next stage of extract, merge,
\* detect and commit or to a normal return, and a handler that returned after
\* a failure leaves the slot as free as any other return does.
C15_FailuresContained == C15_EveryHandlerReturns /\ [][C15_Pipeline]_vars

\* After a handler whose commit failed, the next matching request has been
\* extracted, merged and judged, and is at its write
C15_Witness ==
    /\ last.outcome = "commitFailed"
    /\ \E h \in HandlerIds :
          /\ handlers[h].pc = "updateSet"
          /\ handlers[h].configuredDomain = <<D_PATHS>>
          /\ handlers[h].storedData = <<>>

\* Every key of the mapping new is a key of old with the same value
AllPresent(new, old) == \A k \in Keys(new) : k \in Keys(old) /\ old[k] = new[k]

\* C16: with one handler at a time, the snapshot a handler judges against is
\* the committed one; a matching request whose cookies and
\* headers are all in the stored snapshot with the same values gets the
\* verdict shouldSync = false with percentage 0, and a request that changes
\* the value of the only stored header gets percentage 100 and shouldSync = true.
C16_RepeatThenChange ==
    \A h \in Judged :
        handlers[h].storedData # <<>> =>
            LET stored == handlers[h].storedData[1]
                request == handlers[h].requestData[1]
                verdict == handlers[h].changeResult[1]
            IN /\ handlers[h].configuredDomain[1] \in DOMAIN store
               /\ stored = store[handlers[h].configuredDomain[1]]
               /\ (AllPresent(request.cookies, stored.cookies)
                     /\ AllPresent(request.headers, stored.headers)) =>
                      /\ ~verdict.shouldSync
                      /\ verdict.headerChangePercentage = 0
               /\ (\E k \in Keys(request.headers) :
                      /\ Keys(stored.headers) = {k}
                      /\ request.headers[k] # stored.headers[k]) =>
                      /\ verdict.shouldSync
                      /\ verdict.headerChangePercentage = FULL_PERCENTAGE

\* The request before did not trigger, as it brought nothing new, and the
\* request now changes the only stored header a from x to y, the cookies
\* being the same
C16_Witness ==
    /\ last.outcome = "committed"
    /\ ~last.changeResult[1].shouldSync
    /\ last.changeResult[1].headerChangePercentage = 0
    /\ ~last.triggered
    /\ \E h \in Judged :
          /\ handlers[h].storedData # <<>>
          /\ handlers[h].storedData[1].headers = (<<"a">> :> <<"x">>)
          /\ handlers[h].requestData[1].headers = (<<"a">> :> <<"y">>)
          /\ handlers[h].requestData[1].cookies = handlers[h].storedData[1].cookies
          /\ handlers[h].changeResult[1].shouldSync
          /\ handlers[h].changeResult[1].headerChangePercentage = FULL_PERCENTAGE

CommittedTwice == probe.op = "commit" /\ probe.phase = "twice"

\* C17: after the second of two commits of the same data for a domain, the
\* record of the domain has the cookies and headers it had after the first
\* (the timestamp is that of the second commit), and the record of every
\* other domain is as it was before the commits.
C17_SecondCommitKeepsData ==
    CommittedTwice =>
        LET once == probe.once[1]
            twice == probe.twice[1]
        IN /\ DOMAIN twice = DOMAIN probe.state \cup {probe.domain}
           /\ DOMAIN twice = DOMAIN once
           /\ twice[probe.domain].cookies = once[probe.domain].cookies
           /\ twice[probe.domain].headers = once[probe.domain].headers
           /\ twice[probe.domain].cookies = probe.data.cookies
           /\ twice[probe.domain].headers = probe.data.headers
           /\ twice[probe.domain].timestamp = probe.second
           /\ \A domain \in DOMAIN probe.state \ {probe.domain} :
                 twice[domain] = probe.state[domain] /\ once[domain] = probe.state[domain]

\* Data with a cookie and a header was committed twice for a.c, the second
\* time later, while d.c had a record
C17_Witness ==
    /\ CommittedTwice
    /\ probe.domain = D_PATHS
    /\ {D_PATHS, D_OTHER} \subseteq DOMAIN probe.state
    /\ probe.data.cookies # EmptyMap
    /\ probe.data.headers # EmptyMap
    /\ probe.twice[1][D_PATHS].timestamp # probe.once[1][D_PATHS].timestamp
    /\ probe.twice[1][D_OTHER] = probe.state[D_OTHER]

SeriesDone == probe.op = "series" /\ probe.phase = "done"

\* The snapshot a series starts from, as mappings (no key when there is none)
BaseOf(kind) == IF probe.base = <<>> THEN EmptyMap ELSE probe.base[1][kind]

\* The last of base, first and second that has the key decides its value
LastWriterWins(merged, kind) ==
    /\ Keys(merged[kind]) =
          Keys(BaseOf(kind)) \cup Keys(probe.first[kind]) \cup Keys(probe.second[kind])
    /\ \A k \in Keys(merged[kind]) :
          merged[kind][k] =
              IF k \in Keys(probe.second[kind]) THEN probe.second[kind][k]
              ELSE IF k \in Keys(probe.first[kind]) THEN probe.first[kind][k]
              ELSE BaseOf(kind)[k]

\* C18 as stated: merging A with B and then with C gives, for every key, the
\* value of merging A with the batch of B and C in which B wins the keys of both.
C18_BatchFirstWins ==
    SeriesDone =>
        /\ probe.inOrder[1].cookies = probe.batchFirstWins[1].cookies
        /\ probe.inOrder[1].headers = probe.batchFirstWins[1].headers

\* C18, amended: merging A with B and then with C gives, for every key, the
\* value of merging A with the batch of B and C in which C wins the keys of
\* both: the last writer of a key wins, batched or not.
C18_BatchLastWins ==
    SeriesDone =>
        /\ probe.inOrder[1].cookies = probe.batchSecondWins[1].cookies
        /\ probe.inOrder[1].headers = probe.batchSecondWins[1].headers
        /\ LastWriterWins(probe.inOrder[1], "cookies")
        /\ LastWriterWins(probe.inOrder[1], "headers")

\* B and C give the header a different values, A has a header of its own, and
\* the value of C is the result
C18_Witness ==
    /\ SeriesDone
    /\ probe.base # <<>>
    /\ <<"b">> \in Keys(probe.base[1].headers)
    /\ <<"a">> \in Keys(probe.first.headers) \cap Keys(probe.second.headers)
    /\ probe.first.headers[<<"a">>] # probe.second.headers[<<"a">>]
    /\ probe.inOrder[1].headers[<<"a">>] = probe.second.headers[<<"a">>]
    /\ probe.inOrder[1].headers # probe.batchFirstWins[1].headers
    /\ <<"b">> \in Keys(probe.inOrder[1].headers)

\* first and second give every key they share the same value
Agree(kind) ==
    \A k \in Keys(probe.first[kind]) \cap Keys(probe.second[kind]) :
        probe.first[kind][k] = probe.second[kind][k]

\* C19 as stated: merging A then B equals merging B then A, whatever values
\* they hold, and merging A twice equals merging A once.
C19_CommutativeIdempotent ==
    SeriesDone =>
        /\ probe.inOrder[1] = probe.swapped[1]
        /\ probe.repeated[1] = probe.once[1]

\* C19, amended: merging A twice equals merging A once, and merging A then B
\* equals merging B then A when A and B hold the same value for every cookie
\* and header name they share.
C19_IdempotentCommutativeOnAgreement ==
    SeriesDone =>
        /\ probe.repeated[1] = probe.once[1]
        /\ (Agree("cookies") /\ Agree("headers")) => probe.inOrder[1] = probe.swapped[1]

\* A and B share the cookie s with the same value, each has a header of its
\* own, and the snapshot holds another value of the cookie
C19_Witness ==
    /\ SeriesDone
    /\ probe.base # <<>>
    /\ probe.first.cookies # EmptyMap
    /\ probe.first.cookies = probe.second.cookies
    /\ probe.base[1].cookies # EmptyMap
    /\ probe.base[1].cookies # probe.first.cookies
    /\ Keys(probe.first.headers) = {<<"a">>}
    /\ Keys(probe.second.headers) = {<<"b">>}
    /\ probe.inOrder[1] = probe.swapped[1]
    /\ Keys(probe.inOrder[1].headers) = {<<"a">>, <<"b">>}

DomainMatched == probe.op = "match" /\ probe.phase = "matched"

\* host is sub, a dot, and domain: the last letters of host are '.' + domain
IsSubdomainOf(host, domain) ==
    /\ Len(host) > Len(domain)
    /\ host[Len(host) - Len(domain)] = "."
    /\ \A i \in 1..Len(domain) : host[Len(host) - Len(domain) + i] = domain[i]

\* C20: on host names, matchesDomain(requestHost, configuredDomain) is true
\* exactly when the two are equal, or requestHost ends with '.' +
\* configuredDomain, or configuredDomain ends with '.' + requestHost; it gives
\* the same with the arguments exchanged.
C20_MatchesDomainExactly ==
    DomainMatched =>
        /\ probe.result[1] <=>
              \/ probe.requestDomain = probe.configDomain
              \/ IsSubdomainOf(probe.requestDomain, probe.configDomain)
              \/ IsSubdomainOf(probe.configDomain, probe.requestDomain)
        /\ probe.reverse[1] = probe.result[1]

\* xa.c, which ends with the letters of a.c without a dot before them, does
\* not match a.c in either order
C20_Witness ==
    /\ DomainMatched
    /\ probe.requestDomain = <<"x", "a", ".", "c">>
    /\ probe.configDomain = <<"a", ".", "c">>
    /\ ~probe.result[1]
    /\ ~probe.reverse[1]

----------------------------------------------------------------------------
\* C21: matchesApiPath(path, patterns) is false when patterns is empty and
\* otherwise true exactly when some pattern stands for the entire path, where
\* '*' stands for zero or more arbitrary characters ('/' included) and every
\* other character for itself only. '/api/v3/*' matches '/api/v3/account' and
\* '/api/v3/' but not '/api/v2/account'; a pattern without '*' matches the
\* identical path only.

PathMatched == probe.op = "path" /\ probe.phase = "matched"

\* The lengths of the prefixes of s that the first i characters of the
\* pattern stand for
RECURSIVE PrefixesSpelt(_, _, _)
PrefixesSpelt(pattern, i, s) ==
    IF i = 0 THEN {0}
    ELSE LET before == PrefixesSpelt(pattern, i - 1, s) IN
         IF pattern[i] = "*"
         THEN {j \in 0..Len(s) : \E k \in before : k <= j}
         ELSE {k + 1 : k \in {n \in before : n < Len(s) /\ s[n + 1] = pattern[i]}}

\* The pattern stands for the whole of s
PatternSpells(pattern, s) == Len(s) \in PrefixesSpelt(pattern, Len(pattern), s)

HasNoStar(pattern) == \A i \in 1..Len(pattern) : pattern[i] # "*"

C21_MatchesApiPathExactly ==
    PathMatched =>
        LET urlPath == probe.urlPath
            apiPaths == probe.apiPaths
            result == probe.result[1]
        IN /\ Len(apiPaths) = 0 => ~result
           /\ result <=> \E i \in 1..Len(apiPaths) : PatternSpells(apiPaths[i], urlPath)
           /\ (Len(apiPaths) = 1 /\ HasNoStar(apiPaths[1]))
                 => (result <=> urlPath = apiPaths[1])
           /\ apiPaths = <<API_V3_STAR>>
                 => /\ urlPath \in {API_V3_ACCOUNT, API_V3} => result
                    /\ urlPath = API_V2_ACCOUNT => ~result

\* A wildcard stood for characters that include '/': /* matched /a/
C21_Witness ==
    /\ PathMatched
    /\ probe.apiPaths = << <<"/", "*">> >>
    /\ probe.urlPath = <<"/", "a", "/">>
    /\ probe.result = <<TRUE>>

----------------------------------------------------------------------------
\* C22: when a sync runs, the payload of a configured domain is the stored
\* snapshot's cookies and headers if and only if the domain has path patterns
\* and a stored snapshot; in every other case (whole-domain mode, or no
\* snapshot yet) the cookie store is read for the domain and the payload is
\* built from what it gave.

\* The runs of performSync that built their payloads
Uploading == {i \in DOMAIN syncs : syncs[i].pc = "upload"}

\* The payloads a run built for a domain
PayloadsOf(run, domain) ==
    {n \in 1..Len(run.domainCookies) : run.domainCookies[n].domain = domain}

IsSnapshotPayload(cookieData, record) ==
    /\ DOMAIN cookieData = {"timestamp", "cookies", "headers"}
    /\ cookieData.cookies = record.cookies
    /\ cookieData.headers = record.headers

IsCookieStorePayload(cookieData, cookies) ==
    /\ DOMAIN cookieData = {"timestamp", "cookies", "count"}
    /\ cookieData.count = Len(cookies)
    /\ Len(cookieData.cookies) = Len(cookies)
    /\ \A k \in 1..Len(cookies) :
          /\ cookieData.cookies[k].name = cookies[k].name
          /\ cookieData.cookies[k].value = cookies[k].value

C22_PayloadSource ==
    \A i \in Uploading :
        \A n \in 1..Len(config.targetDomains) :
            LET domainConfig == config.targetDomains[n]
                run == syncs[i]
            IN IF Len(domainConfig.apiPaths) > 0 /\ domainConfig.domain \in DOMAIN store
               THEN /\ run.reads[n] = << >>
                    /\ \E k \in PayloadsOf(run, domainConfig.domain) :
                          IsSnapshotPayload(run.domainCookies[k].cookieData,
                                            store[domainConfig.domain])
                    /\ \A k \in PayloadsOf(run, domainConfig.domain) :
                          IsSnapshotPayload(run.domainCookies[k].cookieData,
                                            store[domainConfig.domain])
               ELSE \A k \in PayloadsOf(run, domainConfig.domain) :
                       /\ run.reads[n] # << >>
                       /\ IsCookieStorePayload(run.domainCookies[k].cookieData, run.reads[n])

\* A sync built the payload of a.c from its snapshot and the payload of b.c,
\* which has a stored record but no patterns, from the cookie store
C22_Witness ==
    \E i \in Uploading :
        /\ D_WHOLE \in DOMAIN store
        /\ D_PATHS \in DOMAIN store
        /\ Len(syncs[i].domainCookies) = 2
        /\ "headers" \in DOMAIN syncs[i].domainCookies[1].cookieData
        /\ "count" \in DOMAIN syncs[i].domainCookies[2].cookieData

----------------------------------------------------------------------------
\* C23 (as stated): each sync publishes exactly one payload per monitored
\* domain: the number of payloads handed to the upload layer equals the
\* number of configured domains, also for domains whose cookie jar is empty.
C23_OnePayloadPerDomain ==
    \A i \in Uploading : Len(syncs[i].domainCookies) = Len(config.targetDomains)

\* The configured domains for which a run has something to publish: those
\* whose snapshot it takes and those for which the cookie store gave a cookie
Publishable(run) ==
    {n \in 1..Len(config.targetDomains) :
        \/ /\ Len(config.targetDomains[n].apiPaths) > 0
           /\ config.targetDomains[n].domain \in DOMAIN store
        \/ run.reads[n] # << >>}

\* C23 (amended): each sync publishes exactly one payload for every monitored
\* domain that has a usable snapshot or a non-empty cookie jar, and none for
\* a domain whose jar is empty and which has no usable snapshot: the number
\* of payloads handed to the upload layer equals the number of those domains.
C23_OnePayloadPerPublishableDomain ==
    \A i \in Uploading :
        /\ Len(syncs[i].domainCookies) = Cardinality(Publishable(syncs[i]))
        /\ \A n \in 1..Len(config.targetDomains) :
              Cardinality(PayloadsOf(syncs[i], config.targetDomains[n].domain))
                  = IF n \in Publishable(syncs[i]) THEN 1 ELSE 0

\* A sync hands one payload to the upload layer while two domains are
\* configured: the cookie jar of b.c is empty
C23_Witness ==
    \E i \in Uploading :
        /\ Len(config.targetDomains) = 2
        /\ Len(syncs[i].domainCookies) = 1
        /\ syncs[i].domainCookies[1].domain = D_PATHS
        /\ syncs[i].reads[2] = << >>

----------------------------------------------------------------------------
\* C24: every execution of the sync operation overwrites lastSync with that
\* run's status, so that after any sequence of syncs lastSync describes the
\* most recent attempt, also one that ended with no enabled service or with
\* no cookies found.
C24_LastSyncIsLatest ==
    syncLog # << >> =>
        LET returned == syncLog[Len(syncLog)] IN
        /\ lastSync # << >>
        /\ lastSync[1].success = returned.success
        /\ "error" \in DOMAIN returned
              => "error" \in DOMAIN lastSync[1] /\ lastSync[1].error = returned.error
        /\ "results" \in DOMAIN returned
              => /\ "results" \in DOMAIN lastSync[1]
                 /\ lastSync[1].results = returned.results
                 /\ lastSync[1].cookieCount = returned.cookieCount
                 /\ lastSync[1].domainCount = returned.domainCount

----------------------------------------------------------------------------
\* C25: the failure of one service's upload prevents no attempt for the other
\* enabled services or the other domains: the recorded results hold exactly
\* one outcome per pair of a payload's domain and an enabled service, and
\* SyncStatus.success is true exactly when every outcome is a success.

\* The step in which the run i uploads, writes lastSync and returns
Uploads(i) == i \in Uploading /\ Len(syncLog') = Len(syncLog) + 1

C25_UploadStep ==
    \A i \in DOMAIN syncs :
        Uploads(i) =>
            LET domainCookies == syncs[i].domainCookies
                status == lastSync'[1]
                results == status.results
            IN /\ Len(results) = Len(domainCookies) * Cardinality(config.services)
               /\ \A n \in 1..Len(domainCookies), service \in config.services :
                     Cardinality({k \in 1..Len(results) :
                                    /\ results[k].domain = domainCookies[n].domain
                                    /\ results[k].service = service}) = 1
               /\ status.success <=> \A k \in 1..Len(results) : results[k].success

C25_FailuresDoNotPreventUploads == [][C25_UploadStep]_vars

\* A sync of two payloads to two services recorded four outcomes, of which
\* the first is a failure and the others are successes
C25_Witness ==
    /\ lastSync # << >>
    /\ "results" \in DOMAIN lastSync[1]
    /\ Len(lastSync[1].results) = 4
    /\ ~lastSync[1].results[1].success
    /\ \A k \in 2..4 : lastSync[1].results[k].success
    /\ ~lastSync[1].success

----------------------------------------------------------------------------
\* C26: clearStoredApiData(d) removes the record of the domain d and leaves
\* the record of every other domain unchanged; clearStoredApiData() removes
\* all records; after a clear, the next matching request for a cleared
\* domain is judged as a first observation (shouldSync, 100%).

\* The step in which a clear writes
ClearWrites == ClearRuns /\ probe'.op = "clear" /\ probe'.phase = "done"

C26_ClearStep ==
    ClearWrites =>
        IF probe.domain = <<>> THEN store' = EmptyMap
        ELSE /\ DOMAIN store' = DOMAIN store \ {probe.domain[1]}
             /\ \A other \in DOMAIN store' : store'[other] = store[other]

\* The domains whose record the last clear removed
ClearedDomains ==
    IF probe.op = "clear" /\ probe.phase = "done"
    THEN (IF probe.domain = <<>> THEN {D_PATHS, D_WHOLE, D_OTHER} ELSE {probe.domain[1]})
    ELSE {}

\* The requests of the domain that were committed since the start
CommittedFor(domain) == \E name \in observed : name[1] = domain

C26_FirstAfterClear ==
    \A h \in Judged :
        ( /\ handlers[h].configuredDomain[1] \in ClearedDomains
          /\ handlers[h].configuredDomain[1] \notin DOMAIN store )
            => /\ handlers[h].storedData = <<>>
               /\ handlers[h].changeResult[1].shouldSync
               /\ handlers[h].changeResult[1].headerChangePercentage = FULL_PERCENTAGE

C26_ClearRemoves == []C26_FirstAfterClear /\ [][C26_ClearStep]_vars

\* clearStoredApiData(a.c) removed the record of a.c and left the one of d.c,
\* and the next request to a.c was judged
C26_Witness ==
    /\ probe.op = "clear" /\ probe.phase = "done" /\ probe.domain = <<D_PATHS>>
    /\ CommittedFor(D_PATHS)
    /\ D_OTHER \in DOMAIN store
    /\ D_PATHS \notin DOMAIN store
    /\ \E h \in Judged : handlers[h].configuredDomain = <<D_PATHS>>

----------------------------------------------------------------------------
\* C27: the cookies extracted for a request are those of the parsed Cookie
\* header alone whenever the parse gives at least one cookie; the cookie
\* lookup is consulted if and only if the parse gives no cookie (header
\* absent, empty, or without a valid fragment name=value), and then its full
\* result is used.

\* The Cookie header values of the request, whatever the case of the name
CookieHeaderValues(details) ==
    {details.requestHeaders[k].value : k \in
        {k \in 1..Len(details.requestHeaders) :
            toLowerCase(details.requestHeaders[k].name) = COOKIE}}

C27_ExtractStep ==
    \A h \in HandlerIds :
        LET before == handlers[h]
            after == handlers'[h]
        IN /\ (before.pc = "getConfig" /\ after.pc \in {"getCookies", "getStored"})
                 => LET parsed == CookiesOfHeader(before.request[1].requestHeaders) IN
                    /\ after.pc = "getCookies" <=> Keys(parsed) = {}
                    /\ CookieHeaderValues(before.request[1]) \subseteq NoCookieFragment
                          => after.pc = "getCookies"
                    /\ after.pc = "getStored"
                          => after.requestData[1].cookies = parsed
           /\ (before.pc = "getCookies" /\ after.pc # "getCookies")
                 => /\ Keys(CookiesOfHeader(before.request[1].requestHeaders)) = {}
                    /\ after.pc = "getStored"
                    /\ after.requestData[1].cookies \in env.jars

C27_HeaderFirstThenLookup == [][C27_ExtractStep]_vars

\* The data of a request whose Cookie header holds no cookie have the two
\* cookies of the lookup, after an earlier request stored one cookie
C27_Witness ==
    /\ D_PATHS \in DOMAIN store
    /\ store[D_PATHS].cookies = (<<"s">> :> <<"x">>)
    /\ \E h \in HandlerIds :
          /\ handlers[h].pc = "getStored"
          /\ handlers[h].requestData[1].cookies = (<<"s">> :> <<"z">>) @@ (<<"u">> :> <<"z">>)

----------------------------------------------------------------------------
----------------------------------------------------------------------------
\* C29: the change the detector judges is accumulated across requests: when
\* successive requests each change fewer than 20% of the common headers, the
\* changes add up, and as soon as the stored headers differ in at least 20%
\* of the common header names from the headers at the last verdict that asked
\* for a sync, a request yields shouldSync. So the stored headers never stay
\* 20% or more away from the headers of the last such verdict.
C29_ChangesAccumulate ==
    (probe.op = "drift" /\ probe.count > 0) =>
        LET stored == probe.storedData[1].headers
            synced == probe.syncedHeaders[1]
            common == Cardinality(CommonNames(stored, synced))
            changed == Cardinality(ChangedNames(stored, synced))
        IN \/ probe.changeResult[1].shouldSync
           \/ common = 0
           \/ changed * 100 < 20 * common

----------------------------------------------------------------------------
\* C30: within one request handler the steps happen in the order extract,
\* read snapshot, merge, detect, commit, trigger; the trigger is signalled
\* only after that handler's commit attempt has completed.

\* The steps a handler takes, in the order it takes them
HandlerOrder ==
    { <<"idle", "getConfig">>, <<"getConfig", "idle">>, <<"getConfig", "getCookies">>,
      <<"getConfig", "getStored">>, <<"getCookies", "getStored">>,
      <<"getStored", "updateGet">>, <<"updateGet", "updateSet">>,
      <<"updateGet", "idle">>, <<"updateSet", "idle">> }

C30_InOrder ==
    \A h \in HandlerIds :
        /\ handlers'[h].pc # handlers[h].pc
              => <<handlers[h].pc, handlers'[h].pc>> \in HandlerOrder
        /\ handlers'[h].pc = "getStored" => handlers'[h].requestData # <<>>
        /\ handlers'[h].pc \in {"updateGet", "updateSet"}
              => /\ handlers'[h].requestData # <<>>
                 /\ handlers'[h].mergedData # <<>>
                 /\ handlers'[h].changeResult # <<>>

\* The step calls triggerSync
Signals == channel'.calls # channel.calls \/ channel'.fired < channel.fired

\* The handlers whose commit attempt ends in the step and that asked for a sync
CommitEnds ==
    {h \in HandlerIds :
        /\ handlers[h].pc \in {"updateGet", "updateSet"}
        /\ handlers'[h].pc = "idle"
        /\ handlers[h].changeResult[1].shouldSync}

\* The store holds the merged data of the handler after the step
Written(h) ==
    /\ handlers[h].configuredDomain[1] \in DOMAIN store'
    /\ store'[handlers[h].configuredDomain[1]].cookies = handlers[h].mergedData[1].cookies
    /\ store'[handlers[h].configuredDomain[1]].headers = handlers[h].mergedData[1].headers

\* The callback is invoked in the step
Fires == channel'.fired > channel.fired

\* C30 (as stated): ... so a trigger callback never fires before the data of
\* the request that signalled it was written to the store: the data are in
\* the store when the trigger is signalled, and the callback fires later.
C30_SignalStepWrites ==
    /\ C30_InOrder
    /\ Signals => /\ CommitEnds # {}
                  /\ \A h \in CommitEnds : Written(h)
    /\ Fires => ~Signals /\ now >= channel.lastCallAt + SYNC_DEBOUNCE_MS

C30_SignalStepEndsCommit ==
    /\ C30_InOrder
    /\ Signals => /\ CommitEnds # {}
                  /\ \A h \in CommitEnds : last'.outcome = "committed" => Written(h)
    /\ Fires => ~Signals /\ now >= channel.lastCallAt + SYNC_DEBOUNCE_MS

ReadFailed(h) ==
    /\ handlers[h].pc \in {"updateGet", "updateSet"}
    /\ handlers[h].storedData = <<>>
    /\ handlers[h].configuredDomain[1] \in DOMAIN store

\* C31: a failed read of the stored snapshot during a matching request is
\* treated as no data. The read ends with the stored record or with null; with
\* null the verdict is shouldSync = true with headerChangePercentage = 100
\* and the merged data are the request's own, and the record the handler then
\* commits holds only the cookies and headers of that request.
C31_ReadStep ==
    \A h \in HandlerIds :
        /\ handlers[h].pc = "getStored" /\ handlers'[h] # handlers[h] =>
              /\ handlers'[h].pc = "updateGet"
              /\ handlers'[h].storedData \in
                    {<<>>} \cup {<<store[d]>> : d \in {handlers[h].configuredDomain[1]} \cap DOMAIN store}
              /\ handlers'[h].storedData = <<>> =>
                    /\ handlers'[h].changeResult[1].shouldSync
                    /\ handlers'[h].changeResult[1].headerChangePercentage = FULL_PERCENTAGE
                    /\ handlers'[h].mergedData = handlers[h].requestData
        /\ ReadFailed(h) /\ handlers'[h].pc = "idle" /\ last'.outcome = "committed" =>
              /\ last'.triggered
              /\ store'[handlers[h].configuredDomain[1]].cookies = handlers[h].requestData[1].cookies
              /\ store'[handlers[h].configuredDomain[1]].headers = handlers[h].requestData[1].headers

C31_FailedReadIsNoData == [][C31_ReadStep]_vars

\* A request was committed after its read of an existing snapshot failed: the
\* record of a.c no longer holds a header that an earlier request stored
C31_Witness ==
    /\ last.outcome = "committed"
    /\ last.changeResult[1].headerChangePercentage = FULL_PERCENTAGE
    /\ D_PATHS \in DOMAIN store
    /\ \E k \in {<<"a">>, <<"b">>} :
          /\ <<D_PATHS, "headers", k>> \in observed
          /\ k \notin Keys(store[D_PATHS].headers)

\* The handlers of a request that gave no cookie (no Cookie header, and the
\* lookup failed or found nothing) for a domain that has a snapshot
LookupGaveNothing(h) ==
    /\ handlers[h].requestData # <<>>
    /\ handlers[h].requestData[1].cookies = EmptyMap
    /\ handlers[h].configuredDomain[1] \in DOMAIN store

\* C32: when the Cookie header gives no cookie and the cookie lookup fails for
\* a matching request whose domain has a snapshot, the handler goes on with
\* an empty cookie mapping (the lookup gives cookies of the jar or none), the
\* verdict has cookiesChanged = false, so that it asks for a sync only for
\* headers that changed, and the commit leaves the stored cookies as they were.
C32_LookupStep ==
    \A h \in HandlerIds :
        /\ handlers[h].pc = "getCookies" /\ handlers'[h] # handlers[h] =>
              /\ handlers'[h].pc = "getStored"
              /\ handlers'[h].requestData[1].cookies \in env.jars \cup {EmptyMap}
        /\ LookupGaveNothing(h) /\ handlers[h].pc = "getStored"
              /\ handlers'[h].pc = "updateGet" =>
              /\ handlers'[h].storedData = <<store[handlers[h].configuredDomain[1]]>>
              /\ ~handlers'[h].changeResult[1].cookiesChanged
              /\ handlers'[h].mergedData[1].cookies = handlers'[h].storedData[1].cookies
              /\ handlers'[h].changeResult[1].shouldSync =>
                    /\ handlers'[h].changeResult[1].headersChanged
                    /\ hasChanges(handlers'[h].mergedData[1].headers,
                                  handlers'[h].storedData[1].headers)
        /\ LookupGaveNothing(h) /\ handlers[h].pc = "updateSet"
              /\ handlers'[h].pc = "idle" =>
              /\ handlers[h].configuredDomain[1] \in DOMAIN store'
              /\ store'[handlers[h].configuredDomain[1]].cookies =
                    store[handlers[h].configuredDomain[1]].cookies

C32_LookupFailureKeepsCookies == [][C32_LookupStep]_vars

\* A request without cookies is about to be committed for a domain whose
\* snapshot holds a cookie: its verdict asks for no sync
C32_Witness ==
    \E h \in HandlerIds :
        /\ handlers[h].pc = "updateSet"
        /\ LookupGaveNothing(h)
        /\ store[handlers[h].configuredDomain[1]].cookies # EmptyMap
        /\ handlers[h].state[1][handlers[h].configuredDomain[1]].cookies =
              store[handlers[h].configuredDomain[1]].cookies
        /\ ~handlers[h].changeResult[1].shouldSync

\* The domains of the configuration entries that have path patterns
MonitoredDomains ==
    { config.targetDomains[i].domain :
        i \in {j \in DOMAIN config.targetDomains : Len(config.targetDomains[j].apiPaths) > 0} }

\* C33: snapshots are keyed by the configured domain, not by the request host.
\* Every key of the store is the domain of a configuration entry with path
\* patterns; a matched request gets as its key a configured domain that its
\* host matches; and a commit writes the merge of the request with the record
\* under that key, leaving every other key alone.
C33_KeyStep ==
    \A h \in HandlerIds :
        /\ handlers[h].pc = "getConfig" /\ handlers'[h].pc \in {"getCookies", "getStored"} =>
              /\ handlers'[h].configuredDomain[1] \in MonitoredDomains
              /\ matchesDomain(handlers[h].request[1].hostname,
                               handlers'[h].configuredDomain[1])
        /\ handlers[h].pc = "updateSet" /\ handlers'[h].pc = "idle" =>
              LET key == handlers[h].configuredDomain[1] IN
              /\ DOMAIN store' = DOMAIN store \cup {key}
              /\ \A d \in DOMAIN store \ {key} : store'[d] = store[d]
              /\ store'[key].headers =
                    Spread(IF key \in DOMAIN store THEN store[key].headers ELSE EmptyMap,
                           handlers[h].requestData[1].headers)

C33_KeyedByConfiguredDomain ==
    /\ [](DOMAIN store \subseteq MonitoredDomains)
    /\ [][C33_KeyStep]_vars

\* The record of a.c holds the header sent to a.c and the one sent to its
\* subdomain w.a.c
C33_Witness ==
    /\ D_PATHS \in DOMAIN store
    /\ Keys(store[D_PATHS].headers) = {<<"a">>, <<"b">>}
    /\ D_OTHER \in DOMAIN store

\* The indices of the configuration entries whose domain matches the host
MatchingEntries(hostname) ==
    {i \in DOMAIN config.targetDomains :
        matchesDomain(hostname, config.targetDomains[i].domain)}

\* The entries after the first matching one that match the host and have a
\* pattern matching the path
LaterEntries(details) ==
    {j \in MatchingEntries(details.hostname) :
        /\ \E i \in MatchingEntries(details.hostname) : i < j
        /\ matchesApiPath(details.pathname, config.targetDomains[j].apiPaths)}

\* C34: a request is attributed to the first configuration entry, in
\* configured order, whose domain matches its host, and only the patterns of
\* that entry are consulted: without patterns, or with none that matches the
\* path, the request is skipped, whatever later entries match; otherwise the
\* request is processed under that entry's domain.
C34_AttributionStep ==
    \A h \in HandlerIds :
        handlers[h].pc = "getConfig" /\ handlers'[h] # handlers[h] =>
            LET details == handlers[h].request[1]
                matching == MatchingEntries(details.hostname)
            IN \A i \in matching :
                  (\A j \in matching : i <= j) =>
                      LET entry == config.targetDomains[i] IN
                      IF Len(entry.apiPaths) = 0
                      THEN handlers'[h].pc = "idle" /\ last'.outcome = "noApiPaths"
                      ELSE IF ~matchesApiPath(details.pathname, entry.apiPaths)
                      THEN handlers'[h].pc = "idle" /\ last'.outcome = "pathNotMatched"
                      ELSE /\ handlers'[h].pc \in {"getCookies", "getStored"}
                           /\ handlers'[h].configuredDomain = <<entry.domain>>

C34_FirstMatchingEntry == [][C34_AttributionStep]_vars

\* A request to w.a.c/v/x was skipped for the first matching entry, a.c,
\* although the later entry w.a.c matches the host and its pattern the path
C34_Witness ==
    /\ last.outcome \in {"noApiPaths", "pathNotMatched"}
    /\ config.targetDomains[1].domain = D_PATHS
    /\ \A details \in env.requests : LaterEntries(details) # {}
    /\ store = EmptyMap

\* The request of the handler h only adds header names to a non-empty stored
\* header set: no stored header gets another value, and its cookies are in
\* the stored cookies
OnlyAddsHeaders(h) ==
    LET new == handlers[h].requestData[1]
        stored == store[handlers[h].configuredDomain[1]]
    IN /\ Keys(stored.headers) # {}
       /\ Keys(new.headers) \ Keys(stored.headers) # {}
       /\ ChangedNames(new.headers, stored.headers) = {}
       /\ \A k \in Keys(new.cookies) :
             k \in Keys(stored.cookies) /\ new.cookies[k] = stored.cookies[k]

\* C35: in the request handler the detector receives merged data whose header
\* names include the stored ones, so the common names are the stored names;
\* a matching request that only adds header names to a non-empty stored
\* header set, with cookies unchanged, gets headersChanged = true,
\* headerChangePercentage = 0 and shouldSync = false, and its new headers
\* are committed to the snapshot all the same.
C35_DetectStep ==
    \A h \in HandlerIds :
        /\ handlers[h].pc = "getStored" /\ handlers'[h].pc = "updateGet"
              /\ handlers'[h].storedData # <<>> =>
              LET merged == handlers'[h].mergedData[1]
                  stored == handlers'[h].storedData[1]
                  verdict == handlers'[h].changeResult[1]
              IN /\ Keys(stored.headers) \subseteq Keys(merged.headers)
                 /\ CommonNames(merged.headers, stored.headers) = Keys(stored.headers)
                 /\ OnlyAddsHeaders(h) =>
                       /\ verdict.headersChanged
                       /\ ~verdict.cookiesChanged
                       /\ verdict.headerChangePercentage = 0
                       /\ ~verdict.shouldSync
        /\ handlers[h].pc = "updateSet" /\ handlers'[h].pc = "idle"
              /\ handlers[h].configuredDomain[1] \in DOMAIN store
              /\ OnlyAddsHeaders(h) =>
              /\ ~last'.triggered
              /\ \A k \in Keys(handlers[h].requestData[1].headers) :
                    /\ k \in Keys(store'[handlers[h].configuredDomain[1]].headers)
                    /\ store'[handlers[h].configuredDomain[1]].headers[k] =
                          handlers[h].requestData[1].headers[k]

C36_VerdictConsistent ==
    Detected =>
        LET verdict == probe.changeResult[1] IN
        /\ verdict.headerChangePercentage \in 0..FULL_PERCENTAGE
        /\ verdict.cookiesChanged => verdict.shouldSync
        /\ verdict.shouldSync => verdict.cookiesChanged \/ verdict.headersChanged
        /\ ~verdict.cookiesChanged /\ ~verdict.headersChanged =>
              ~verdict.shouldSync /\ verdict.headerChangePercentage = 0

\* A verdict for changed cookies and headers of which one in six changed
C36_Witness ==
    /\ Detected
    /\ probe.storedData # <<>>
    /\ probe.changeResult[1].cookiesChanged
    /\ probe.changeResult[1].headersChanged
    /\ probe.changeResult[1].shouldSync
    /\ Cardinality(CommonNames(probe.newData.headers, probe.storedData[1].headers)) = 6
    /\ Cardinality(ChangedNames(probe.newData.headers, probe.storedData[1].headers)) = 1

\* The calls of performSync so far: those running and those that returned
PerformSyncCalls ==
    Cardinality({i \in DOMAIN syncs : syncs[i].pc # "callback"}) + Len(syncLog)

\* C37: no automatically triggered sync runs while auto-sync is disabled:
\* when a debounce timer of the request channel or of the cookie channel
\* fires while the autoSync flag of the configuration is false, performSync
\* is not called, also when the flag was switched off after the signal.
\* (No sync is asked for by hand in the specification this is checked in.)
C37_NoCallWhileOff == ~config.autoSync => PerformSyncCalls' = PerformSyncCalls

C37_NoSyncWhileDisabled == [][C37_NoCallWhileOff]_vars

\* The handlers a step starts
Started == {h \in HandlerIds : handlers[h].pc = "idle" /\ handlers'[h].pc # "idle"}

\* The handlers a step ends after their call of updateStoredData
Committing == {h \in HandlerIds : handlers[h].pc \in {"updateGet", "updateSet"}
                                    /\ handlers'[h].pc = "idle"}

\* C38: after any number of calls of setupRequestMonitoring, at start-up and
\* on every change of the configuration, exactly one request listener is
\* registered; so every request dispatched starts one handler, and a step
\* that writes the store or signals the trigger is the end of one handler,
\* which ends once: there are no more trigger signals than requests.
C38_DispatchStep ==
    /\ requests' = requests + 1 => Cardinality(Started) = 1
    /\ requests' = requests => Started = {}
    /\ (store' # store \/ channel' # channel) => Cardinality(Committing) = 1
    /\ channel'.calls <= channel.calls + 1

C38_OneListener ==
    /\ [](worker.webRequestListeners = 1 /\ channel.calls <= requests)
    /\ [][C38_DispatchStep]_vars

\* Two requests were handled after the configuration changed twice: both
\* signalled the trigger, and the second was committed
C38_Witness ==
    /\ worker.configChanges = MaxConfigChanges
    /\ worker.lastConfigWrite = "popup"
    /\ worker.webRequestListeners = 1
    /\ requests = 2
    /\ channel.calls = 2
    /\ last.outcome = "committed"
    /\ InFlight = {}

\* A burst of the auto-sync channel begins with a scheduling that finds no
\* timer pending; it has at most one expiry, exactly one once no timer is
\* pending, a window after its last scheduling
C39_OnePerBurst ==
    /\ Cardinality(worker.autoTimers) <= 1
    /\ \A deadline \in worker.autoTimers :
          /\ worker.autoSyncTimer = <<deadline>>
          /\ deadline = worker.channel.lastCallAt + AUTO_SYNC_DEBOUNCE_MS
    /\ worker.channel.fired <= 1
    /\ (worker.channel.calls >= 1 /\ worker.autoTimers = {}) => worker.channel.fired = 1
    /\ worker.channel.fired = 1 =>
          worker.channel.lastFireAt = worker.channel.lastCallAt + AUTO_SYNC_DEBOUNCE_MS

\* Every expiry of the timer is one call of performSync, and there is no other
C39_OneSyncPerExpiry ==
    PerformSyncCalls' - PerformSyncCalls =
        IF worker'.channel.fired = worker.channel.fired + 1 THEN 1 ELSE 0

\* C39: after any number of configuration changes, each of which runs
\* setupAutoSync again, the cookie changes of a configured domain whose
\* callbacks each schedule the sync before the 5-second window of the previous
\* scheduling elapsed leave at most one timer pending and give exactly one
\* call of performSync.
C39_OneSyncPerBurst == []C39_OnePerBurst /\ [][C39_OneSyncPerExpiry]_vars

\* Two cookie changes, each reported to the two listeners that two changes of
\* the configuration left, were answered by one sync
C39_Witness ==
    /\ worker.configChanges = MaxConfigChanges
    /\ worker.cookieListeners = 2
    /\ worker.cookieChanges = 2
    /\ worker.changes = <<>>
    /\ worker.channel.calls = 4
    /\ worker.channel.fired = 1
    /\ worker.channel.lastCallAt > 0
    /\ worker.autoTimers = {}
    /\ Len(syncLog) = 1
    /\ syncs = <<>>

\* A step in which the options page saved the configuration
Saves ==
    /\ worker'.configChanges = worker.configChanges + 1
    /\ worker'.lastConfigWrite = "options"

\* C40: saving the configuration from the options page leaves the autoSync
\* flag as it was: when auto-sync was enabled before the save, it is enabled
\* in the stored configuration after it.
C40_SaveStep == Saves => config'.autoSync = config.autoSync

C40_SaveKeepsAutoSync == [][C40_SaveStep]_vars

====
